---------------------------- MODULE Spec2Model ----------------------------
(***************************************************************************)
(* Model of emmett-expressjs-with-openapi: the module-resolution bridge    *)
(* (esm-resolver), handler discovery (openapi-parser), the handler         *)
(* importer (handler-importer) and the application builder                 *)
(* (getApplication).                                                       *)
(*                                                                         *)
(* Strings are sequences of one-character strings, so that includes,       *)
(* startsWith and the path functions are computed character by character,  *)
(* as the JavaScript runtime computes them.  An absent (undefined) string  *)
(* field and the empty string are both the empty sequence: every test the  *)
(* code makes on such a field is a truthiness test, which treats them      *)
(* alike.                                                                  *)
(***************************************************************************)
EXTENDS Integers, Sequences, FiniteSets, TLC

----------------------------------------------------------------------------
(* String primitives of the runtime.                                       *)

Slash == <<"/">>

Dot == <<".">>

DotDot == <<".", ".">>

\* String.prototype.startsWith
StartsWith(s, pre) ==
    /\ Len(pre) <= Len(s)
    /\ SubSeq(s, 1, Len(pre)) = pre

\* String.prototype.includes
Includes(s, sub) ==
    \E i \in 1..(Len(s) - Len(sub) + 1) : SubSeq(s, i, i + Len(sub) - 1) = sub

\* path.isAbsolute (posix)
IsAbsolute(p) == Len(p) > 0 /\ p[1] = "/"

\* The segments of p between its separators ("" segments included).
RECURSIVE SplitPath(_)
SplitPath(p) ==
    LET cuts == {i \in 1..Len(p) : p[i] = "/"}
    IN  IF cuts = {} THEN <<p>>
        ELSE LET i == CHOOSE c \in cuts : \A d \in cuts : c <= d
             IN  <<SubSeq(p, 1, i - 1)>> \o SplitPath(SubSeq(p, i + 1, Len(p)))

\* The segments joined by the separator.
RECURSIVE JoinPath(_)
JoinPath(segs) ==
    IF segs = <<>> THEN <<>>
    ELSE IF Len(segs) = 1 THEN segs[1]
    ELSE segs[1] \o Slash \o JoinPath(Tail(segs))

\* normalizeString of node:path: drops "" and "." segments and resolves
\* ".." against the segment before it; above the start ".." is kept only
\* when allowAboveRoot.
RECURSIVE NormalizeSegments(_, _, _)
NormalizeSegments(segs, acc, allowAboveRoot) ==
    IF segs = <<>> THEN acc
    ELSE LET h == Head(segs)
             r == Tail(segs)
         IN  IF h = <<>> \/ h = Dot
                 THEN NormalizeSegments(r, acc, allowAboveRoot)
             ELSE IF h = DotDot
                 THEN IF acc # <<>> /\ acc[Len(acc)] # DotDot
                          THEN NormalizeSegments(r, SubSeq(acc, 1, Len(acc) - 1),
                                                 allowAboveRoot)
                      ELSE IF allowAboveRoot
                          THEN NormalizeSegments(r, Append(acc, h), allowAboveRoot)
                      ELSE NormalizeSegments(r, acc, allowAboveRoot)
             ELSE NormalizeSegments(r, Append(acc, h), allowAboveRoot)

\* path.normalize (posix)
PathNormalize(p) ==
    IF p = <<>> THEN Dot
    ELSE LET abs      == IsAbsolute(p)
             trailing == p[Len(p)] = "/"
             body     == JoinPath(NormalizeSegments(SplitPath(p), <<>>, ~abs))
         IN  IF body = <<>>
                 THEN (IF abs THEN Slash
                       ELSE IF trailing THEN Dot \o Slash ELSE Dot)
             ELSE LET tailed == IF trailing THEN body \o Slash ELSE body
                  IN  IF abs THEN Slash \o tailed ELSE tailed

\* The working directory of the process: path.resolve falls back on it when
\* no argument is absolute.
Cwd == <<"/", "w">>

\* path.resolve(a, b) (posix): the arguments are taken right to left until
\* an absolute one is met; the result is normalized and has no trailing
\* separator.
PathResolve(a, b) ==
    LET joined == IF IsAbsolute(b) THEN b
                  ELSE IF IsAbsolute(a) THEN a \o Slash \o b
                  ELSE Cwd \o Slash \o a \o Slash \o b
    IN  Slash \o JoinPath(NormalizeSegments(SplitPath(joined), <<>>, FALSE))

\* path.dirname (posix)
PathDirname(p) ==
    LET cuts == {i \in 2..Len(p) :
                    p[i] = "/" /\ \E j \in (i + 1)..Len(p) : p[j] # "/"}
    IN  IF p = <<>> THEN Dot
        ELSE IF cuts = {} THEN (IF IsAbsolute(p) THEN Slash ELSE Dot)
        ELSE LET e == CHOOSE c \in cuts : \A d \in cuts : d <= c
             IN  SubSeq(p, 1, e - 1)

\* path.extname (posix): from the last "." of the last segment, unless that
\* "." starts the segment.
PathExtname(p) ==
    LET segs == SplitPath(p)
        base == segs[Len(segs)]
        dots == {i \in 1..Len(base) : base[i] = "."}
    IN  IF dots = {} \/ base = DotDot THEN <<>>
        ELSE LET d == CHOOSE c \in dots : \A e \in dots : e <= c
             IN  IF d = 1 THEN <<>> ELSE SubSeq(base, d, Len(base))


----------------------------------------------------------------------------
(* Values: errors, module objects, results of calls that may throw.        *)

Err(kind, module, path, cause) ==
    [kind |-> kind, module |-> module, path |-> path, cause |-> cause]

NoError == Err("none", <<>>, <<>>, "")

\* A module object is identified by the loader that made it and the file
\* (or request) it was made from: two objects are the same instance exactly
\* when both agree.
ModuleObject(loader, file) == [loader |-> loader, file |-> file]

NoModule == ModuleObject("none", <<>>)

Returned(v) == [ok |-> TRUE, value |-> v, error |-> NoError]

Thrown(e) == [ok |-> FALSE, value |-> <<>>, error |-> e]

----------------------------------------------------------------------------
(* Module-resolution bridge (esm-resolver).                                *)

validatorMarker == <<"e", "x", "p", "r", "e", "s", "s", "-", "o", "p", "e", "n", "a", "p", "i", "-", "v", "a", "l", "i", "d", "a", "t", "o", "r">>

handlersMarker == <<"h", "a", "n", "d", "l", "e", "r", "s">>

\* A parent module as Module._load receives it: missing (undefined), or an
\* object whose filename may be absent (the empty sequence).
Parent(filename) == [present |-> TRUE, filename |-> filename]

NoParent == [present |-> FALSE, filename |-> <<>>]

\* const caller = parent?.filename
CallerOf(parent) == IF parent.present THEN parent.filename ELSE <<>>

\* caller?.includes('express-openapi-validator')
IsValidatorLoading(parent) ==
    CallerOf(parent) # <<>> /\ Includes(CallerOf(parent), validatorMarker)

\* A bridge that takes every request of the validator for a handler module.
IsHandlerModule_always(request) == TRUE

\* request.includes('handlers')
IsHandlerModule(request) == Includes(request, handlersMarker)

\* path.isAbsolute(request) ? request : path.resolve(path.dirname(caller), request)
AbsolutePathOfRequest(request, caller) ==
    IF IsAbsolute(request) THEN request
    ELSE PathResolve(PathDirname(caller), request)

\* The loader of the runtime, before any patch: it makes (or finds in its
\* own cache) the CommonJS instance of the request.
OriginalLoad(request, parent, isMain) == ModuleObject("cjs", request)

LoadArgs(request, parent, isMain) ==
    [request |-> request, parent |-> parent, isMain |-> isMain]

LoadResult(outcome, value, error, forwards, loaderRuns) ==
    [outcome |-> outcome, value |-> value, error |-> error,
     forwards |-> forwards, loaderRuns |-> loaderRuns]

\* A bridge that falls back on the original loader for a path missing from
\* the cache.
InterceptedLoad_fallback(request, parent, cache) ==
    LET absolutePath == AbsolutePathOfRequest(request, CallerOf(parent))
    IN  IF absolutePath \in DOMAIN cache
            THEN LoadResult("return", cache[absolutePath], NoError, <<>>, 0)
        ELSE LoadResult("return", OriginalLoad(request, parent, FALSE), NoError,
                        <<LoadArgs(request, parent, FALSE)>>, 1)

\* The body of the patched Module._load for an intercepted request.
InterceptedLoad(request, parent, cache) ==
    LET absolutePath == AbsolutePathOfRequest(request, CallerOf(parent))
    IN  IF absolutePath \in DOMAIN cache
            THEN LoadResult("return", cache[absolutePath], NoError, <<>>, 0)
        ELSE LoadResult("throw", NoModule,
                        Err("UnregisteredHandlerModule", <<>>, absolutePath, ""),
                        <<>>, 0)

\* Module._load as installed in the process after n patches: each patch
\* wraps the loader that was installed before it.  forwards lists the
\* arguments of every originalLoad.call made by a wrapper, outermost first;
\* loaderRuns counts the runs of the runtime's own loader.
RECURSIVE ModuleLoad(_, _, _, _, _)
ModuleLoad(n, request, parent, isMain, cache) ==
    IF n = 0
        THEN LoadResult("return", OriginalLoad(request, parent, isMain),
                        NoError, <<>>, 1)
    ELSE IF IsValidatorLoading(parent) /\ IsHandlerModule(request)
        THEN InterceptedLoad(request, parent, cache)
    ELSE LET inner == ModuleLoad(n - 1, request, parent, isMain, cache)
         IN  [inner EXCEPT
                 !.forwards = <<LoadArgs(request, parent, isMain)>> \o @]

\* A registration that keeps the object a path already has.
RegisterInCache_keepFirst(cache, modulePath, moduleExports) ==
    [p \in (DOMAIN cache) \cup {modulePath} |->
        IF p \in DOMAIN cache THEN cache[p] ELSE moduleExports]

\* registerHandlerModule: Map.prototype.set on the module cache.
RegisterInCache(cache, modulePath, moduleExports) ==
    [p \in (DOMAIN cache) \cup {modulePath} |->
        IF p = modulePath THEN moduleExports ELSE cache[p]]

\* An activation without the isPatched guard.
ActivateResolver_unguarded(patched, n) == [isPatched |-> TRUE, wraps |-> n + 1]

\* activateESMResolver, as a function of (isPatched, number of patches).
ActivateResolver(patched, n) ==
    IF patched THEN [isPatched |-> TRUE, wraps |-> n]
    ELSE [isPatched |-> TRUE, wraps |-> n + 1]


----------------------------------------------------------------------------
(* Handler discovery (openapi-parser).                                     *)

\* A JavaScript value read from an operation's x-eov-operation-handler.
StringValue(v) == [t |-> "string", v |-> v]

UndefinedValue == [t |-> "undefined", v |-> <<>>]

NumberValue == [t |-> "number", v |-> <<"7">>]

\* An operation object of a path item; isObject is FALSE for an entry whose
\* value is null or not an object.
Operation(handler, operationId, xEovOperationId) ==
    [isObject |-> TRUE, handler |-> handler, operationId |-> operationId,
     xEovOperationId |-> xEovOperationId]

NotAnObject ==
    [isObject |-> FALSE, handler |-> UndefinedValue, operationId |-> <<>>,
     xEovOperationId |-> <<>>]

\* One [method, operation] pair met by the two nested Object.entries loops;
\* a document lists its pairs in the order the loops meet them.
Entry(method, operation) == [method |-> method, operation |-> operation]

Document(entries) == [hasPaths |-> TRUE, entries |-> entries]

DocumentWithoutPaths == [hasPaths |-> FALSE, entries |-> <<>>]

\* if (method === 'parameters' || method === 'servers') continue;
\* A traversal that takes the shared siblings of a path item for operations.
IsSkippedMethod_none(method) == FALSE

IsSkippedMethod(method) == method = "parameters" \/ method = "servers"

\* A reading that prefers operationId.
OperationIdOf_operationIdFirst(operation) ==
    IF operation.operationId # <<>> THEN operation.operationId
    ELSE operation.xEovOperationId

\* operation['x-eov-operation-id'] || operation.operationId
OperationIdOf(operation) ==
    IF operation.xEovOperationId # <<>> THEN operation.xEovOperationId
    ELSE operation.operationId

\* path.resolve(basePath)
ResolvedBase(basePath) == PathResolve(<<>>, basePath)

\* absolutePath.startsWith(resolvedBase)
IsWithinBase(absolutePath, resolvedBase) == StartsWith(absolutePath, resolvedBase)

\* resolveHandlerPath
resolveHandlerPath(basePath, relativePath) ==
    LET normalized   == PathNormalize(relativePath)
        absolutePath == PathResolve(basePath, normalized)
        resolvedBase == ResolvedBase(basePath)
    IN  IF ~IsWithinBase(absolutePath, resolvedBase)
            THEN Thrown(Err("PathTraversal", relativePath, <<>>, ""))
        ELSE Returned(absolutePath)

HandlerModuleInfo(moduleName, relativePath, absolutePath, operationIds) ==
    [moduleName |-> moduleName, relativePath |-> relativePath,
     absolutePath |-> absolutePath, operationIds |-> operationIds]

\* handlersMap.has(handlerName): the Map keeps its entries in insertion order.
MapHas(handlersMap, handlerName) ==
    \E i \in 1..Len(handlersMap) : handlersMap[i].moduleName = handlerName

\* if (!handlersMap.has(handlerName)) handlersMap.set(handlerName, {...})
MapSetIfAbsent_always(handlersMap, handlerName, absolutePath) ==
    Append(handlersMap,
           HandlerModuleInfo(handlerName, handlerName, absolutePath, <<>>))

MapSetIfAbsent(handlersMap, handlerName, absolutePath) ==
    IF MapHas(handlersMap, handlerName) THEN handlersMap
    ELSE Append(handlersMap,
                HandlerModuleInfo(handlerName, handlerName, absolutePath, <<>>))

\* handlersMap.get(handlerName).operationIds.push(operationId)
MapPushOperationId(handlersMap, handlerName, operationId) ==
    [i \in 1..Len(handlersMap) |->
        IF handlersMap[i].moduleName = handlerName
            THEN [handlersMap[i] EXCEPT !.operationIds = Append(@, operationId)]
        ELSE handlersMap[i]]

\* The body of the loops of extractHandlerModules, over the entries still
\* to visit.
RECURSIVE ExtractLoop(_, _, _)
ExtractLoop(entries, handlersBasePath, handlersMap) ==
    IF entries = <<>> THEN Returned(handlersMap)
    ELSE LET method      == Head(entries).method
             operation   == Head(entries).operation
             rest        == Tail(entries)
             handlerName == operation.handler
             operationId == OperationIdOf(operation)
         IN  IF IsSkippedMethod(method)
                 THEN ExtractLoop(rest, handlersBasePath, handlersMap)
             ELSE IF ~operation.isObject
                 THEN ExtractLoop(rest, handlersBasePath, handlersMap)
             ELSE IF handlerName.v # <<>> /\ handlerName.t = "string"
                 THEN LET resolved == resolveHandlerPath(handlersBasePath,
                                                         handlerName.v)
                          added    == MapSetIfAbsent(handlersMap, handlerName.v,
                                                     resolved.value)
                          pushed   == IF operationId # <<>>
                                          THEN MapPushOperationId(added,
                                                   handlerName.v, operationId)
                                      ELSE added
                      IN  IF ~resolved.ok THEN resolved
                          ELSE ExtractLoop(rest, handlersBasePath, pushed)
             ELSE ExtractLoop(rest, handlersBasePath, handlersMap)

\* The files of the process's file system that hold specifications: what
\* readFile finds at a path and what the parsers make of it.
SpecFile(format, doc) == [format |-> format, doc |-> doc]

ApiJson == <<"/", "w", "/", "a", "p", "i", ".", "j", "s", "o", "n">>

ApiYml == <<"/", "w", "/", "a", "p", "i", ".", "Y", "M", "L">>

ApiText == <<"/", "w", "/", "a", "p", "i", ".", "t", "x", "t">>

ApiBroken == <<"/", "w", "/", "b", "a", "d", ".", "j", "s", "o", "n">>

ApiGone == <<"/", "w", "/", "g", "o", "n", "e", ".", "j", "s", "o", "n">>

ApiGoneText == <<"/", "w", "/", "g", "o", "n", "e", ".", "t", "x", "t">>

\* An apiSpec option: a file path, or a document held in memory.
SpecPath(path) == [isPath |-> TRUE, path |-> path, doc |-> DocumentWithoutPaths]

SpecObject(doc) == [isPath |-> FALSE, path |-> <<>>, doc |-> doc]


----------------------------------------------------------------------------
(* Inputs of discovery: handler references, operation ids, operations.     *)

BaseDir == <<"/", "w", "/", "h", "a", "n", "d", "l", "e", "r", "s">>

RelativeBaseDir == <<"h", "a", "n", "d", "l", "e", "r", "s">>

RefA == <<"a">>

RefDotA == <<".", "/", "a">>

RefB == <<"b">>

RefC == <<"c">>

RefBad == <<"b", "a", "d">>

RefMissing == <<"m", "i", "s", "s", "i", "n", "g">>

RefVersioned == <<"d", ".", "v", "1">>

RefSibling == <<".", ".", "/", "h", "a", "n", "d", "l", "e", "r", "s", "x", "/", "e">>

RefOutside == <<".", ".", "/", "x">>

RefBaseItself == <<".">>

OpA1 == Operation(StringValue(RefA), <<"o", "1">>, <<>>)

OpA2 == Operation(StringValue(RefA), <<"o", "2">>, <<"x", "2">>)

OpA3 == Operation(StringValue(RefA), <<>>, <<"x", "3">>)

OpB == Operation(StringValue(RefB), <<>>, <<>>)

OpSibling == Operation(StringValue(RefSibling), <<"o", "3">>, <<>>)

OpOutside == Operation(StringValue(RefOutside), <<"o", "4">>, <<>>)

OpBaseItself == Operation(StringValue(RefBaseItself), <<>>, <<"x", "5">>)

OpNoHandler == Operation(UndefinedValue, <<"o", "6">>, <<>>)

OpNumberHandler == Operation(NumberValue, <<"o", "7">>, <<>>)

\* The [method, operation] pairs the documents of the discovery
\* specification are made of.
DiscoveryEntries ==
    {Entry("get", op) : op \in {OpA1, OpA2, OpA3, OpB, OpSibling, OpOutside,
                                OpBaseItself, OpNoHandler, OpNumberHandler,
                                NotAnObject}}
    \cup {Entry("parameters", OpA1), Entry("servers", OpB)}

\* The most [method, operation] pairs a document of the discovery
\* specification holds.
MaxOps == 3

SeqsUpTo(S, n) == UNION {[1..k -> S] : k \in 0..n}

DiscoveryDocuments ==
    {Document(es) : es \in SeqsUpTo(DiscoveryEntries, MaxOps)}
    \cup {DocumentWithoutPaths}

\* What the file system holds at the specification paths.
DocAB == Document(<<Entry("get", OpA1), Entry("post", OpA2), Entry("get", OpB)>>)

SpecFileExists(path) == path \in {ApiJson, ApiYml, ApiText, ApiBroken}

SpecFileAt(path) ==
    IF path = ApiJson THEN SpecFile("json", DocAB)
    ELSE IF path = ApiYml THEN SpecFile("yaml", Document(<<Entry("get", OpB)>>))
    ELSE IF path = ApiText THEN SpecFile("json", DocAB)
    ELSE SpecFile("text", DocumentWithoutPaths)

\* JSON.parse(content)
JsonParse(file) ==
    IF file.format = "json" THEN Returned(file.doc)
    ELSE Thrown(Err("SyntaxError", <<>>, <<>>, "Unexpected token"))

\* yaml.parse(content): JSON is YAML; plain text parses to a scalar, which
\* has no paths.
YamlParse(file) ==
    IF file.format \in {"json", "yaml"} THEN Returned(file.doc)
    ELSE Returned(DocumentWithoutPaths)

\* String.prototype.toLowerCase on the letters an extension is made of here.
LowerChar(c) ==
    IF c = "Y" THEN "y" ELSE IF c = "M" THEN "m" ELSE IF c = "L" THEN "l"
    ELSE IF c = "J" THEN "j" ELSE IF c = "S" THEN "s" ELSE IF c = "O" THEN "o"
    ELSE IF c = "N" THEN "n" ELSE IF c = "A" THEN "a" ELSE c

\* A translation that compares the extension as written.
ToLowerCase_asWritten(s) == s

ToLowerCase(s) == [i \in 1..Len(s) |-> LowerChar(s[i])]

\* loadOpenApiSpec
loadOpenApiSpec(filePath) ==
    IF ~SpecFileExists(filePath)
        THEN Thrown(Err("SpecNotFound", <<>>, filePath, "ENOENT"))
    ELSE LET content == SpecFileAt(filePath)
             ext     == ToLowerCase(PathExtname(filePath))
         IN  IF ext = <<".", "j", "s", "o", "n">> THEN JsonParse(content)
             ELSE IF ext = <<".", "y", "a", "m", "l">> \/ ext = <<".", "y", "m", "l">>
                 THEN YamlParse(content)
             ELSE Thrown(Err("UnsupportedFormat", <<>>, ext, ""))

\* extractHandlerModules, "Load spec if it's a file path": the document the
\* walk is made over, and the paths readFile is called with to get it.
SpecOf(apiSpec) ==
    IF apiSpec.isPath THEN loadOpenApiSpec(apiSpec.path) ELSE Returned(apiSpec.doc)

ReadFileCalls(apiSpec) == IF apiSpec.isPath THEN <<apiSpec.path>> ELSE <<>>

\* extractHandlerModules
extractHandlerModules(apiSpec, handlersBasePath) ==
    LET loaded == SpecOf(apiSpec)
    IN  IF ~loaded.ok THEN loaded
        ELSE IF ~loaded.value.hasPaths
            THEN Thrown(Err("InvalidSpec", <<>>, <<>>, ""))
        ELSE ExtractLoop(loaded.value.entries, handlersBasePath, <<>>)


----------------------------------------------------------------------------
(* Handler importer (handler-importer).                                    *)

\* The handler files of the process's file system.
FileAJs == <<"/", "w", "/", "h", "a", "n", "d", "l", "e", "r", "s", "/", "a", ".", "j", "s">>

FileBMjs == <<"/", "w", "/", "h", "a", "n", "d", "l", "e", "r", "s", "/", "b", ".", "m", "j", "s">>

FileBTs == <<"/", "w", "/", "h", "a", "n", "d", "l", "e", "r", "s", "/", "b", ".", "t", "s">>

FileC == <<"/", "w", "/", "h", "a", "n", "d", "l", "e", "r", "s", "/", "c">>

FileCJs == <<"/", "w", "/", "h", "a", "n", "d", "l", "e", "r", "s", "/", "c", ".", "j", "s">>

FileBadJs == <<"/", "w", "/", "h", "a", "n", "d", "l", "e", "r", "s", "/", "b", "a", "d", ".", "j", "s">>

FileSiblingJs == <<"/", "w", "/", "h", "a", "n", "d", "l", "e", "r", "s", "x", "/", "e", ".", "j", "s">>

FileDV1Js == <<"/", "w", "/", "h", "a", "n", "d", "l", "e", "r", "s", "/", "d", ".", "v", "1", ".", "j", "s">>

ExistingFiles ==
    {FileAJs, FileBMjs, FileBTs, FileC, FileCJs, FileBadJs, FileSiblingJs, FileDV1Js}

\* The files whose evaluation throws.
ThrowingFiles == {FileBadJs}

moduleExtensions ==
    <<<<".", "j", "s">>, <<".", "m", "j", "s">>, <<".", "c", "j", "s">>,
      <<".", "t", "s">>, <<".", "m", "t", "s">>, <<".", "c", "t", "s">>>>

\* pathExists: fs.access succeeds.
pathExists(filePath) == filePath \in ExistingFiles

\* for (const ext of moduleExtensions) { if (await pathExists(candidate)) return candidate }
RECURSIVE FirstExistingCandidate(_, _)
FirstExistingCandidate(modulePath, exts) ==
    IF exts = <<>> THEN modulePath
    ELSE IF pathExists(modulePath \o Head(exts)) THEN modulePath \o Head(exts)
    ELSE FirstExistingCandidate(modulePath, Tail(exts))

\* resolveModulePath
resolveModulePath_literal(modulePath) == modulePath

resolveModulePath(modulePath) ==
    IF pathExists(modulePath) THEN modulePath
    ELSE IF PathExtname(modulePath) # <<>> THEN modulePath
    ELSE FirstExistingCandidate(modulePath, moduleExtensions)

FileScheme == <<"f", "i", "l", "e", ":", "/", "/">>

\* pathToFileURL(resolvedPath).href, for paths without characters to escape.
PathToFileURL(resolvedPath) == FileScheme \o resolvedPath

\* The file a file: URL names.
FileOfURL(fileUrl) == SubSeq(fileUrl, Len(FileScheme) + 1, Len(fileUrl))

\* await import(fileUrl): the ESM loader evaluates a file once and gives
\* the same namespace object for the same URL ever after.
ImportModule(fileUrl) ==
    IF ~pathExists(FileOfURL(fileUrl))
        THEN Thrown(Err("ERR_MODULE_NOT_FOUND", <<>>, FileOfURL(fileUrl),
                        "Cannot find module"))
    ELSE IF FileOfURL(fileUrl) \in ThrowingFiles
        THEN Thrown(Err("Error", <<>>, FileOfURL(fileUrl), "boom"))
    ELSE Returned(ModuleObject("esm", fileUrl))

\* registerHandlerModule(module.absolutePath, importedModule);
\* if (resolvedPath !== module.absolutePath) registerHandlerModule(resolvedPath, importedModule)
RegisterImported_absoluteOnly(cache, absolutePath, resolvedPath, importedModule) ==
    RegisterInCache(cache, absolutePath, importedModule)

RegisterImported(cache, absolutePath, resolvedPath, importedModule) ==
    LET first == RegisterInCache(cache, absolutePath, importedModule)
    IN  IF resolvedPath # absolutePath
            THEN RegisterInCache(first, resolvedPath, importedModule)
        ELSE first

\* importedHandlers[module.moduleName] = importedModule
SetImported(importedHandlers, moduleName, importedModule) ==
    [n \in (DOMAIN importedHandlers) \cup {moduleName} |->
        IF n = moduleName THEN importedModule ELSE importedHandlers[n]]

\* A loop that logs a failed import and goes on to the next module.
ImportOne_skipFailed(module, cache, importedHandlers) ==
    LET resolvedPath == resolveModulePath(module.absolutePath)
        imported     == ImportModule(PathToFileURL(resolvedPath))
    IN  IF ~imported.ok
            THEN [ok |-> TRUE, cache |-> cache,
                  importedHandlers |-> importedHandlers, error |-> NoError]
        ELSE [ok |-> TRUE,
              cache |-> RegisterImported(cache, module.absolutePath,
                                         resolvedPath, imported.value),
              importedHandlers |-> SetImported(importedHandlers,
                                               module.moduleName, imported.value),
              error |-> NoError]

\* A loop that, when an import fails, takes the modules it registered out of
\* the cache again.
ImportOne_rollback(module, cache, importedHandlers) ==
    LET resolvedPath == resolveModulePath(module.absolutePath)
        imported     == ImportModule(PathToFileURL(resolvedPath))
        kept         == {p \in DOMAIN cache :
                            \A n \in DOMAIN importedHandlers :
                                importedHandlers[n] # cache[p]}
    IN  IF ~imported.ok
            THEN [ok |-> FALSE, cache |-> [p \in kept |-> cache[p]],
                  importedHandlers |-> importedHandlers,
                  error |-> Err("HandlerImportFailure", module.moduleName,
                                module.absolutePath, imported.error.cause)]
        ELSE [ok |-> TRUE,
              cache |-> RegisterImported(cache, module.absolutePath,
                                         resolvedPath, imported.value),
              importedHandlers |-> SetImported(importedHandlers,
                                               module.moduleName, imported.value),
              error |-> NoError]

\* One turn of the loop of importAndRegisterHandlers: the new cache and
\* result object, or the error the call rejects with.
ImportOne(module, cache, importedHandlers) ==
    LET resolvedPath == resolveModulePath(module.absolutePath)
        imported     == ImportModule(PathToFileURL(resolvedPath))
    IN  IF ~imported.ok
            THEN [ok |-> FALSE, cache |-> cache,
                  importedHandlers |-> importedHandlers,
                  error |-> Err("HandlerImportFailure", module.moduleName,
                                module.absolutePath, imported.error.cause)]
        ELSE [ok |-> TRUE,
              cache |-> RegisterImported(cache, module.absolutePath,
                                         resolvedPath, imported.value),
              importedHandlers |-> SetImported(importedHandlers,
                                               module.moduleName, imported.value),
              error |-> NoError]


----------------------------------------------------------------------------
(* State.                                                                  *)

VARIABLES
    isPatched,    \* esm-resolver: let isPatched
    wraps,        \* how many times Module._load has been replaced by a wrapper
    moduleCache,  \* esm-resolver: const moduleCache = new Map()
    lastLoad,     \* the latest call of Module._load and what it did
    probe,        \* a call of extractHandlerModules and its outcome
    builds,       \* the getApplication calls of the process
    problemCall,  \* a call of the problem-details error middleware
    etagCall,     \* a call of one of the ETag helpers
    logCall,      \* a call of one of the safeLog methods
    authCall,     \* a call of the Firebase security handler
    streams,      \* the event store: the events of each stream
    requests,     \* the HTTP requests an application is serving
    lastRegister, \* the latest call of registerHandlerModule and what it replaced
    traceCall,    \* a request served by a tracedOn handler and its span
    middlewareRun \* a call of runMiddleware and the events it has seen

\* The state of the builder, the bridge and the discovery.
buildVars == <<isPatched, wraps, moduleCache, lastLoad, probe, builds>>

\* The state of the helpers and of the applications at run time.
runVars == <<problemCall, etagCall, logCall, authCall, streams, requests>>

\* The records kept of single calls.
callVars == <<lastRegister, traceCall, middlewareRun>>

vars == <<buildVars, runVars, callVars>>

\* A helper that has not been called, a store and an application at rest.
NotCalled == [called |-> FALSE]

RunIdle ==
    /\ problemCall = NotCalled
    /\ etagCall = NotCalled
    /\ logCall = NotCalled
    /\ authCall = NotCalled
    /\ streams = <<>>
    /\ requests = <<>>

CallsIdle ==
    /\ lastRegister = NotCalled
    /\ traceCall = NotCalled
    /\ middlewareRun = NotCalled

\* The getApplication calls: build 1 is the call under study, build 2 a
\* second call of the same process running concurrently with it.
Builds == {1, 2}

EmptyMap == [p \in {} |-> NoModule]

NoLoad ==
    [called |-> FALSE, patched |-> FALSE, request |-> <<>>, parent |-> NoParent,
     isMain |-> FALSE, result |-> LoadResult("none", NoModule, NoError, <<>>, 0)]

NoProbe ==
    [apiSpec |-> SpecObject(DocumentWithoutPaths), basePath |-> <<>>,
     called |-> FALSE, reads |-> <<>>, spec |-> Thrown(NoError),
     result |-> Thrown(NoError)]

----------------------------------------------------------------------------
(* The bridge on its own: activation, registration, load requests.         *)

ValidatorFile == <<"/", "n", "/", "e", "x", "p", "r", "e", "s", "s", "-", "o", "p", "e", "n", "a", "p", "i", "-", "v", "a", "l", "i", "d", "a", "t", "o", "r", "/", "r", ".", "j", "s">>

OtherFile == <<"/", "n", "/", "l", "i", "b", "/", "r", ".", "j", "s">>

HandlerPathA == <<"/", "w", "/", "h", "a", "n", "d", "l", "e", "r", "s", "/", "a">>

LibPath == <<"/", "w", "/", "l", "i", "b", "/", "x">>

RequestRelative == <<".", ".", "/", ".", ".", "/", "w", "/", "h", "a", "n", "d", "l", "e", "r", "s", "/", "a">>

RequestUnnormalized == <<"/", "w", "/", "h", "a", "n", "d", "l", "e", "r", "s", "/", ".", "/", "a">>

RequestPackage == <<"e", "x", "p", "r", "e", "s", "s">>

LoadRequests ==
    {HandlerPathA, FileAJs, RequestRelative, RequestUnnormalized, LibPath,
     RequestPackage}

LoadParents == {NoParent, Parent(<<>>), Parent(ValidatorFile), Parent(OtherFile)}

RegisterPaths == {HandlerPathA, FileAJs, LibPath}

RegisterObjects ==
    {ModuleObject("esm", PathToFileURL(FileAJs)), ModuleObject("cjs", HandlerPathA)}

\* export const activateESMResolver
activateESMResolver ==
    /\ isPatched' = ActivateResolver(isPatched, wraps).isPatched
    /\ wraps' = ActivateResolver(isPatched, wraps).wraps
    /\ UNCHANGED <<moduleCache, lastLoad, probe, builds, runVars, callVars>>

\* export const registerHandlerModule
registerHandlerModule(modulePath, moduleExports) ==
    /\ moduleCache' = RegisterInCache(moduleCache, modulePath, moduleExports)
    /\ lastRegister' =
           [called |-> TRUE, modulePath |-> modulePath,
            moduleExports |-> moduleExports,
            had |-> modulePath \in DOMAIN moduleCache,
            previous |-> IF modulePath \in DOMAIN moduleCache
                             THEN moduleCache[modulePath] ELSE NoModule]
    /\ UNCHANGED <<isPatched, wraps, lastLoad, probe, builds, runVars, traceCall, middlewareRun>>

\* A call of Module._load by some module of the process.
Module_load(request, parent, isMain) ==
    /\ lastLoad' = [called |-> TRUE, patched |-> isPatched, request |-> request,
                    parent |-> parent, isMain |-> isMain,
                    result |-> ModuleLoad(wraps, request, parent, isMain,
                                          moduleCache)]
    /\ UNCHANGED <<isPatched, wraps, moduleCache, probe, builds, runVars, callVars>>


----------------------------------------------------------------------------
(* Application builder (getApplication).                                   *)

\* The operationHandlers option: absent, false, a string, or an object
\* whose basePath may be absent (the empty sequence).
OperationHandlers(kind, basePath) == [kind |-> kind, basePath |-> basePath]

\* if (openApiValidator.operationHandlers)
IsConfigured(operationHandlers) ==
    \/ operationHandlers.kind = "object"
    \/ operationHandlers.kind = "string" /\ operationHandlers.basePath # <<>>

\* typeof operationHandlers === 'string' ? operationHandlers : operationHandlers.basePath
HandlersBasePath(operationHandlers) == operationHandlers.basePath

\* The options read before the first await.
Options(openApiValidator, operationHandlers, initializeHandlers, apiSpec, disableJsonMiddleware, disableUrlEncodingMiddleware) ==
    [openApiValidator |-> openApiValidator,
     operationHandlers |-> operationHandlers,
     initializeHandlers |-> initializeHandlers,
     apiSpec |-> apiSpec,
     disableJsonMiddleware |-> disableJsonMiddleware,
     disableUrlEncodingMiddleware |-> disableUrlEncodingMiddleware]

NoOptions ==
    Options(FALSE, OperationHandlers("absent", <<>>), FALSE,
            SpecObject(DocumentWithoutPaths), FALSE, FALSE)

\* The options and the behaviour of the validator package that the last,
\* synchronous stretch of getApplication reads: they are drawn when that
\* stretch runs.
TailOptions(validatorLoad, factoryThrows, serveSpec, apis, disableProblemDetailsMiddleware) ==
    [validatorLoad |-> validatorLoad, factoryThrows |-> factoryThrows,
     serveSpec |-> serveSpec, apis |-> apis,
     disableProblemDetailsMiddleware |-> disableProblemDetailsMiddleware]

NoTail == TailOptions("untried", FALSE, FALSE, FALSE, FALSE)

IdleBuild ==
    [pc |-> "idle", options |-> NoOptions, tail |-> NoTail,
     modules |-> <<>>, idx |-> 0, importedHandlers |-> EmptyMap,
     initCalls |-> <<>>, initStatus |-> "none",
     layers |-> <<>>, factoryCalls |-> 0,
     thrownInside |-> NoError, error |-> NoError]

\* One call of the initializeHandlers callback.
InitCall(hasArgument, handlers) ==
    [hasArgument |-> hasArgument, handlers |-> handlers]

\* Lines 72-81: the body parsers.
BodyParsers(options) ==
    (IF options.disableJsonMiddleware THEN <<>> ELSE <<"json">>)
    \o (IF options.disableUrlEncodingMiddleware THEN <<>> ELSE <<"urlencoded">>)

\* A translation that mounts the error handler ahead of the caller's routes.
MountRoutesAndReturn_handlerFirst(bd, tail) ==
    LET handled == IF tail.disableProblemDetailsMiddleware THEN bd.layers
                   ELSE Append(bd.layers, "problemDetails")
        last    == IF tail.apis THEN Append(handled, "router") ELSE handled
    IN  [bd EXCEPT !.pc = "resolved", !.layers = last,
                   !.tail.apis = tail.apis,
                   !.tail.disableProblemDetailsMiddleware =
                       tail.disableProblemDetailsMiddleware]

\* A translation that mounts the caller's routes ahead of everything
\* mounted so far.
MountRoutesAndReturn_routesFirst(bd, tail) ==
    LET routed == IF tail.apis THEN <<"router">> \o bd.layers ELSE bd.layers
        last   == IF tail.disableProblemDetailsMiddleware THEN routed
                  ELSE Append(routed, "problemDetails")
    IN  [bd EXCEPT !.pc = "resolved", !.layers = last,
                   !.tail.apis = tail.apis,
                   !.tail.disableProblemDetailsMiddleware =
                       tail.disableProblemDetailsMiddleware]

\* Lines 185-197: the caller's routes, the problem-details middleware, and
\* the application returned.
MountRoutesAndReturn(bd, tail) ==
    LET routed == IF tail.apis THEN Append(bd.layers, "router") ELSE bd.layers
        last   == IF tail.disableProblemDetailsMiddleware THEN routed
                  ELSE Append(routed, "problemDetails")
    IN  [bd EXCEPT !.pc = "resolved", !.layers = last,
                   !.tail.apis = tail.apis,
                   !.tail.disableProblemDetailsMiddleware =
                       tail.disableProblemDetailsMiddleware]

\* A catch that throws an error of its own in place of the one caught.
RejectWith_replaced(bd, error) ==
    [bd EXCEPT !.pc = "rejected",
               !.error = Err("BuildFailed", <<>>, <<>>, error.cause)]

\* throw error: the promise getApplication returned is rejected.
RejectWith(bd, error) == [bd EXCEPT !.pc = "rejected", !.error = error]

\* A translation that serves a path as JSON and an object as a static file.
ServeSpecLayers_swapped(bd, tail) ==
    IF ~tail.serveSpec THEN bd.layers
    ELSE IF bd.options.apiSpec.isPath THEN Append(bd.layers, "serveSpecJson")
    ELSE Append(bd.layers, "serveSpecStatic")

\* if (openApiValidator.serveSpec) { ... }
ServeSpecLayers(bd, tail) ==
    IF ~tail.serveSpec THEN bd.layers
    ELSE IF bd.options.apiSpec.isPath THEN Append(bd.layers, "serveSpecStatic")
    ELSE Append(bd.layers, "serveSpecJson")

ValidatorRequired == Err("ValidatorRequired", <<>>, <<>>, "")

\* Lines 134-197: the try block that loads and mounts the validator, its
\* catch, and the rest of the function.
ValidatorSection_continue(bd, tail) ==
    IF tail.validatorLoad # "ok"
        THEN MountRoutesAndReturn(
                 [bd EXCEPT !.tail.validatorLoad = tail.validatorLoad,
                            !.thrownInside =
                                Err(tail.validatorLoad, <<>>, <<>>, "")],
                 tail)
    ELSE MountRoutesAndReturn(
             [bd EXCEPT !.tail.validatorLoad = tail.validatorLoad,
                        !.tail.serveSpec = tail.serveSpec,
                        !.layers = Append(ServeSpecLayers(bd, tail), "validator"),
                        !.factoryCalls = @ + 1], tail)

ValidatorSection(bd, tail) ==
    IF tail.validatorLoad # "ok"
        THEN RejectWith([bd EXCEPT !.tail.validatorLoad = tail.validatorLoad,
                                   !.thrownInside =
                                       Err(tail.validatorLoad, <<>>, <<>>, "")],
                        ValidatorRequired)
    ELSE IF tail.factoryThrows
        THEN RejectWith([bd EXCEPT !.tail.validatorLoad = tail.validatorLoad,
                                   !.tail.factoryThrows = TRUE,
                                   !.tail.serveSpec = tail.serveSpec,
                                   !.layers = ServeSpecLayers(bd, tail),
                                   !.factoryCalls = @ + 1,
                                   !.thrownInside =
                                       Err("UnregisteredHandlerModule", <<>>,
                                           <<>>, "")],
                        ValidatorRequired)
    ELSE MountRoutesAndReturn(
             [bd EXCEPT !.tail.validatorLoad = tail.validatorLoad,
                        !.tail.serveSpec = tail.serveSpec,
                        !.layers = Append(ServeSpecLayers(bd, tail), "validator"),
                        !.factoryCalls = @ + 1], tail)


----------------------------------------------------------------------------
(* Inputs of the builds.                                                   *)

OpC == Operation(StringValue(RefC), <<"o", "8">>, <<>>)

OpDotA == Operation(StringValue(RefDotA), <<"o", "9">>, <<>>)

OpBad == Operation(StringValue(RefBad), <<>>, <<>>)

OpMissing == Operation(StringValue(RefMissing), <<>>, <<>>)

DocCAA == Document(<<Entry("get", OpC), Entry("get", OpDotA), Entry("put", OpA1)>>)

DocABadB == Document(<<Entry("get", OpA1), Entry("get", OpBad), Entry("get", OpB)>>)

DocMissing == Document(<<Entry("get", OpMissing)>>)

OpVersioned == Operation(StringValue(RefVersioned), <<>>, <<>>)

DocVersioned == Document(<<Entry("get", OpB), Entry("get", OpVersioned)>>)

DocOutside == Document(<<Entry("get", OpA1), Entry("get", OpOutside)>>)

DocSibling == Document(<<Entry("get", OpSibling)>>)

BuildSpecs ==
    {SpecObject(DocAB), SpecObject(DocCAA), SpecObject(DocABadB),
     SpecObject(DocMissing), SpecObject(DocOutside), SpecObject(DocSibling),
     SpecObject(DocVersioned),
     SpecObject(Document(<<>>)), SpecObject(DocumentWithoutPaths),
     SpecPath(ApiJson), SpecPath(ApiGone)}

OperationHandlersOptions ==
    {OperationHandlers("absent", <<>>), OperationHandlers("false", <<>>),
     OperationHandlers("string", <<>>), OperationHandlers("string", BaseDir),
     OperationHandlers("object", <<>>), OperationHandlers("object", BaseDir)}

\* The apiSpec matters to a build without a handler directory only by
\* being a path or a document.
SpecsFor(operationHandlers) ==
    IF HandlersBasePath(operationHandlers) # <<>> THEN BuildSpecs
    ELSE {SpecObject(DocAB), SpecPath(ApiJson)}

\* Build 1 takes any options; build 2 is a build with a handler directory
\* and a callback.
OptionsOf(b) ==
    IF b = 1
        THEN {Options(FALSE, OperationHandlers("absent", <<>>), FALSE,
                      SpecObject(DocumentWithoutPaths), j, u) :
                  j \in BOOLEAN, u \in BOOLEAN}
             \cup UNION {{Options(TRUE, oh, init, spec, FALSE, FALSE) :
                             init \in BOOLEAN, spec \in SpecsFor(oh)} :
                         oh \in OperationHandlersOptions}
    ELSE {Options(TRUE, OperationHandlers("string", BaseDir), TRUE,
                  SpecObject(doc), FALSE, FALSE) : doc \in {DocCAA, DocABadB}}

TailsOf(b) ==
    IF b = 1
        THEN {TailOptions(load, throws, serve, apis, noProblem) :
                  load \in {"ok", "missing", "noMiddleware"},
                  throws \in BOOLEAN, serve \in BOOLEAN, apis \in BOOLEAN,
                  noProblem \in BOOLEAN}
    ELSE {TailOptions("ok", FALSE, serve, TRUE, FALSE) : serve \in BOOLEAN}

----------------------------------------------------------------------------
(* The steps of getApplication, one per stretch between two awaits.        *)

SetBuild(b, bd) ==
    builds' = [builds EXCEPT ![b] = bd]

\* Lines 53-92 and 127-132: up to the first await.
Start(b, options, tail) ==
    LET bd == [builds[b] EXCEPT !.options = options,
                                !.layers = BodyParsers(options)]
    IN  /\ builds[b].pc = "idle"
        /\ IF ~options.openApiValidator
               THEN SetBuild(b, MountRoutesAndReturn(bd, tail))
           ELSE IF IsConfigured(options.operationHandlers)
               THEN SetBuild(b, [bd EXCEPT !.pc = "importResolver"])
           ELSE IF options.initializeHandlers
               THEN SetBuild(b, [bd EXCEPT
                        !.pc = "initializing",
                        !.initCalls = Append(@, InitCall(FALSE, EmptyMap)),
                        !.initStatus = "pending"])
           ELSE SetBuild(b, ValidatorSection(bd, tail))
        /\ UNCHANGED <<isPatched, wraps, moduleCache, lastLoad, probe, runVars, callVars>>

\* Lines 92-106: the resolver module has been imported; activate it.
ResolverImported(b, tail) ==
    LET bd == builds[b]
    IN  /\ bd.pc = "importResolver"
        /\ isPatched' = ActivateResolver(isPatched, wraps).isPatched
        /\ wraps' = ActivateResolver(isPatched, wraps).wraps
        /\ IF HandlersBasePath(bd.options.operationHandlers) # <<>>
               THEN SetBuild(b, [bd EXCEPT !.pc = "importInternals"])
           ELSE SetBuild(b, ValidatorSection(bd, tail))
        /\ UNCHANGED <<moduleCache, lastLoad, probe, runVars, callVars>>

\* Lines 101-113: the parser and the importer have been imported;
\* extractHandlerModules is called.
InternalsImported(b) ==
    /\ builds[b].pc = "importInternals"
    /\ SetBuild(b, [builds[b] EXCEPT !.pc = "extracting"])
    /\ UNCHANGED <<isPatched, wraps, moduleCache, lastLoad, probe, runVars, callVars>>

\* Lines 110-116 and 122-125: extractHandlerModules has settled;
\* importAndRegisterHandlers is called with its result.
ExtractSettled(b) ==
    LET bd        == builds[b]
        extracted == extractHandlerModules(
                         bd.options.apiSpec,
                         HandlersBasePath(bd.options.operationHandlers))
    IN  /\ bd.pc = "extracting"
        /\ IF ~extracted.ok
               THEN SetBuild(b, RejectWith(bd, extracted.error))
           ELSE SetBuild(b, [bd EXCEPT !.pc = "importing",
                                       !.modules = extracted.value,
                                       !.idx = 1])
        /\ UNCHANGED <<isPatched, wraps, moduleCache, lastLoad, probe, runVars, callVars>>

\* importAndRegisterHandlers, one turn of its loop.
ImportStep(b) ==
    LET bd  == builds[b]
        one == ImportOne(bd.modules[bd.idx], moduleCache, bd.importedHandlers)
    IN  /\ bd.pc = "importing"
        /\ bd.idx <= Len(bd.modules)
        /\ moduleCache' = one.cache
        /\ IF ~one.ok
               THEN SetBuild(b, RejectWith(bd, one.error))
           ELSE SetBuild(b, [bd EXCEPT !.importedHandlers = one.importedHandlers,
                                       !.idx = @ + 1])
        /\ UNCHANGED <<isPatched, wraps, lastLoad, probe, runVars, callVars>>

\* The loop of importAndRegisterHandlers has ended.
ImportLoopEnded(bd) == bd.idx > Len(bd.modules)

\* Lines 116-121: importAndRegisterHandlers has settled; the callback is
\* called with the imported modules.
ImportSettled(b, tail) ==
    LET bd == builds[b]
    IN  /\ bd.pc = "importing"
        /\ ImportLoopEnded(bd)
        /\ IF bd.options.initializeHandlers
               THEN SetBuild(b, [bd EXCEPT
                        !.pc = "initializing",
                        !.initCalls =
                            Append(@, InitCall(TRUE, bd.importedHandlers)),
                        !.initStatus = "pending"])
           ELSE SetBuild(b, ValidatorSection(bd, tail))
        /\ UNCHANGED <<isPatched, wraps, moduleCache, lastLoad, probe, runVars, callVars>>

\* The promise the callback returned settles (a callback that returns no
\* promise, or throws, settles at once).
InitSettles(b, fulfilled) ==
    /\ builds[b].pc = "initializing"
    /\ builds[b].initStatus = "pending"
    /\ SetBuild(b, [builds[b] EXCEPT
           !.initStatus = IF fulfilled THEN "fulfilled" ELSE "rejected"])
    /\ UNCHANGED <<isPatched, wraps, moduleCache, lastLoad, probe, runVars, callVars>>

\* await openApiValidator.initializeHandlers(...)
InitAwaited_unawaited(bd) == TRUE

InitAwaited(bd) == bd.initStatus # "pending"

\* Lines 120-134: the await of the callback ends.
InitResumed(b, tail) ==
    LET bd == builds[b]
    IN  /\ bd.pc = "initializing"
        /\ InitAwaited(bd)
        /\ IF bd.initStatus = "rejected"
               THEN SetBuild(b, RejectWith(bd, Err("InitializeHandlers", <<>>,
                                                   <<>>, "init failed")))
           ELSE SetBuild(b, ValidatorSection(bd, tail))
        /\ UNCHANGED <<isPatched, wraps, moduleCache, lastLoad, probe, runVars, callVars>>

\* No build, load or discovery has taken place.
BuildIdle ==
    /\ isPatched = FALSE
    /\ wraps = 0
    /\ moduleCache = EmptyMap
    /\ lastLoad = NoLoad
    /\ probe = NoProbe
    /\ builds = [b \in Builds |-> IdleBuild]

Init ==
    /\ isPatched = FALSE
    /\ wraps = 0
    /\ moduleCache = EmptyMap
    /\ lastLoad = NoLoad
    /\ probe = NoProbe
    /\ builds = [b \in Builds |-> IdleBuild]
    /\ RunIdle
    /\ CallsIdle

Next ==
    \/ \E b \in Builds : \E options \in OptionsOf(b), tail \in TailsOf(b) :
           Start(b, options, tail)
    \/ \E b \in Builds : \E tail \in TailsOf(b) : ResolverImported(b, tail)
    \/ \E b \in Builds : InternalsImported(b)
    \/ \E b \in Builds : ExtractSettled(b)
    \/ \E b \in Builds : ImportStep(b)
    \/ \E b \in Builds : \E tail \in TailsOf(b) : ImportSettled(b, tail)
    \/ \E b \in Builds, fulfilled \in BOOLEAN : InitSettles(b, fulfilled)
    \/ \E b \in Builds : \E tail \in TailsOf(b) : InitResumed(b, tail)

Spec == Init /\ [][Next]_vars

----------------------------------------------------------------------------
(* The bridge specification: the exported operations of esm-resolver and   *)
(* the load requests of the process, in any order.                         *)

NextBridge ==
    \/ activateESMResolver
    \/ \E modulePath \in RegisterPaths, moduleExports \in RegisterObjects :
           registerHandlerModule(modulePath, moduleExports)
    \/ \E request \in LoadRequests, parent \in LoadParents, isMain \in BOOLEAN :
           Module_load(request, parent, isMain)

SpecBridge == Init /\ [][NextBridge]_vars

----------------------------------------------------------------------------
(* The discovery specification: extractHandlerModules applied to one       *)
(* specification and one base directory.                                   *)

DiscoverySpecs ==
    {SpecObject(doc) : doc \in DiscoveryDocuments}
    \cup {SpecPath(path) : path \in {ApiJson, ApiYml, ApiText, ApiBroken, ApiGone, ApiGoneText}}

DiscoveryBases == {BaseDir, RelativeBaseDir}

InitDiscovery ==
    /\ isPatched = FALSE
    /\ wraps = 0
    /\ moduleCache = EmptyMap
    /\ lastLoad = NoLoad
    /\ builds = [b \in Builds |-> IdleBuild]
    /\ RunIdle
    /\ CallsIdle
    /\ probe \in {[apiSpec |-> apiSpec, basePath |-> basePath,
                   called |-> FALSE, reads |-> <<>>, spec |-> Thrown(NoError),
                   result |-> Thrown(NoError)] :
                      apiSpec \in DiscoverySpecs, basePath \in DiscoveryBases}

Discover ==
    /\ ~probe.called
    /\ probe' = [probe EXCEPT
           !.called = TRUE,
           !.reads = ReadFileCalls(probe.apiSpec),
           !.spec = SpecOf(probe.apiSpec),
           !.result = extractHandlerModules(probe.apiSpec, probe.basePath)]
    /\ UNCHANGED <<isPatched, wraps, moduleCache, lastLoad, builds, runVars, callVars>>

NextDiscovery == Discover

SpecDiscovery == InitDiscovery /\ [][NextDiscovery]_vars

----------------------------------------------------------------------------
(* Properties.                                                             *)

Range(seq) == {seq[i] : i \in 1..Len(seq)}

\* The request of a load step is one the bridge answers itself.
MarkersMatch(request, parent) ==
    /\ parent.present
    /\ Includes(parent.filename, validatorMarker)
    /\ Includes(request, handlersMarker)

\* C1: once the bridge is active, a load request whose parent filename
\* contains 'express-openapi-validator' and whose request contains 'handlers'
\* is answered from the module cache alone: the request, taken as it is when
\* absolute and resolved against the caller's directory otherwise, gives the
\* cached object when it is a key of the cache and the 'Handler module not
\* registered' error naming the path when it is not; the original loader
\* does not run.
C1_InterceptedLoadAnsweredFromCache ==
    [][(/\ lastLoad' # lastLoad
        /\ isPatched
        /\ MarkersMatch(lastLoad'.request, lastLoad'.parent))
       => LET request      == lastLoad'.request
              callerDir    == PathDirname(lastLoad'.parent.filename)
              absolutePath == IF request[1] = "/" THEN request
                              ELSE PathResolve(callerDir, request)
              result       == lastLoad'.result
          IN  /\ result.loaderRuns = 0
              /\ result.forwards = <<>>
              /\ IF absolutePath \in DOMAIN moduleCache
                     THEN /\ result.outcome = "return"
                          /\ result.value = moduleCache[absolutePath]
                 ELSE /\ result.outcome = "throw"
                      /\ result.error.kind = "UnregisteredHandlerModule"
                      /\ result.error.path = absolutePath]_vars

\* C1 witness: with the bridge active, the validator's relative request for
\* a registered handler module was answered with the registered ESM object.
C1_Witness ==
    /\ lastLoad.called
    /\ lastLoad.patched
    /\ lastLoad.request = RequestRelative
    /\ lastLoad.parent = Parent(ValidatorFile)
    /\ lastLoad.result.outcome = "return"
    /\ lastLoad.result.value = ModuleObject("esm", PathToFileURL(FileAJs))
    /\ lastLoad.result.loaderRuns = 0

\* C2: once the bridge is active, a load request whose parent is missing or
\* is not a file of the validator, or whose request does not contain
\* 'handlers', is forwarded exactly once to the original loader with the
\* same arguments and returns that loader's result, whatever the cache
\* holds; the cache is not changed.
C2_OtherLoadsPassThrough ==
    [][(/\ lastLoad' # lastLoad
        /\ isPatched
        /\ ~MarkersMatch(lastLoad'.request, lastLoad'.parent))
       => LET args   == LoadArgs(lastLoad'.request, lastLoad'.parent,
                                 lastLoad'.isMain)
              result == lastLoad'.result
          IN  /\ result.forwards = <<args>>
              /\ result.loaderRuns = 1
              /\ result.outcome = "return"
              /\ result.value = ModuleObject("cjs", lastLoad'.request)
              /\ moduleCache' = moduleCache]_vars

\* C2 witness: with the bridge active, a module outside the validator asked
\* for a handler path that is a key of the cache, and the original loader
\* answered.
C2_Witness ==
    /\ lastLoad.called
    /\ lastLoad.patched
    /\ lastLoad.parent = Parent(OtherFile)
    /\ lastLoad.request = HandlerPathA
    /\ HandlerPathA \in DOMAIN moduleCache
    /\ lastLoad.result.loaderRuns = 1
    /\ lastLoad.result.value = ModuleObject("cjs", HandlerPathA)

\* A build that discovers and imports handler modules.
HasBaseDirectory(bd) ==
    /\ bd.options.openApiValidator
    /\ bd.options.operationHandlers.kind \in {"string", "object"}
    /\ bd.options.operationHandlers.basePath # <<>>

\* C3: after a successful build with a handler base path, a load of a
\* discovered module's absolute path, or of its extension-resolved path, by
\* the validator returns the very object that initializeHandlers received
\* under the module's name.
C3_SharedModuleInstance ==
    \A b \in Builds :
        LET bd == builds[b]
        IN  (bd.pc = "resolved" /\ HasBaseDirectory(bd)
             /\ bd.options.initializeHandlers)
            => /\ Len(bd.initCalls) = 1
               /\ \A i \in 1..Len(bd.modules) :
                      LET M      == bd.modules[i]
                          passed == bd.initCalls[1].handlers
                      IN  /\ M.moduleName \in DOMAIN passed
                          /\ \A path \in {M.absolutePath,
                                          resolveModulePath(M.absolutePath)} :
                                 LET r == ModuleLoad(wraps, path,
                                              Parent(ValidatorFile), FALSE,
                                              moduleCache)
                                 IN  Includes(path, handlersMarker)
                                     => /\ r.outcome = "return"
                                        /\ r.loaderRuns = 0
                                        /\ r.value = passed[M.moduleName]

\* C3 witness: build 1 succeeded after importing several modules, one of
\* them through an appended extension.
C3_Witness ==
    /\ builds[1].pc = "resolved"
    /\ HasBaseDirectory(builds[1])
    /\ builds[1].options.initializeHandlers
    /\ Len(builds[1].modules) >= 2
    /\ \E i \in 1..Len(builds[1].modules) :
           resolveModulePath(builds[1].modules[i].absolutePath)
               # builds[1].modules[i].absolutePath

\* C4: the bridge only moves from inactive to active, and however many
\* builds activate it the loader is wrapped once: a request the bridge
\* passes on reaches the original loader through one wrapper.
C4_BridgeActivatedOnce ==
    [][/\ isPatched => isPatched'
       /\ wraps' <= 1
       /\ isPatched' <=> (wraps' = 1)
       /\ isPatched'
          => LET r == ModuleLoad(wraps', RequestPackage, Parent(OtherFile),
                                 FALSE, moduleCache')
             IN  Len(r.forwards) = 1 /\ r.loaderRuns = 1]_vars

\* C4 witness: both builds have run activateESMResolver.
C4_Witness ==
    /\ isPatched
    /\ \A b \in Builds :
           /\ builds[b].options.openApiValidator
           /\ IsConfigured(builds[b].options.operationHandlers)
           /\ builds[b].pc \notin {"idle", "importResolver"}

\* The operations extractHandlerModules reads a handler reference from:
\* entries that are not 'parameters' or 'servers', hold an object, and carry
\* a non-empty string under x-eov-operation-handler.
ReferencesHandler(entry) ==
    /\ entry.method \notin {"parameters", "servers"}
    /\ entry.operation.isObject
    /\ entry.operation.handler.t = "string"
    /\ entry.operation.handler.v # <<>>

ReferencingEntries(doc) == SelectSeq(doc.entries, ReferencesHandler)

\* target is the directory base or lies inside it.
IsInsideOrEqual(target, base) ==
    \/ target = base
    \/ StartsWith(target, base \o Slash)

\* The target a handler reference names under a base directory.
TargetOf(basePath, reference) == PathResolve(basePath, PathNormalize(reference))

\* C5: extractHandlerModules fails with the 'escapes base directory' error
\* whenever a handler reference names a target that is neither the base
\* directory nor inside it, and it accepts only references whose target is
\* the base directory or inside it.
C5_EscapingReferencesRejected ==
    (probe.called /\ ~probe.apiSpec.isPath /\ probe.apiSpec.doc.hasPaths)
    => LET base    == PathResolve(<<>>, probe.basePath)
           entries == ReferencingEntries(probe.apiSpec.doc)
           escapes == \E i \in 1..Len(entries) :
                          ~IsInsideOrEqual(
                              TargetOf(probe.basePath,
                                       entries[i].operation.handler.v), base)
       IN  /\ escapes => /\ ~probe.result.ok
                         /\ probe.result.error.kind = "PathTraversal"
           /\ probe.result.ok
              => \A i \in 1..Len(probe.result.value) :
                     IsInsideOrEqual(probe.result.value[i].absolutePath, base)

\* C5 divergence: a reference that climbs out of the base directory into a
\* sibling whose name starts with the base directory's name was accepted.
C5_Witness ==
    /\ probe.called
    /\ probe.result.ok
    /\ probe.basePath = BaseDir
    /\ \E i \in 1..Len(probe.result.value) :
           /\ probe.result.value[i].moduleName = RefSibling
           /\ probe.result.value[i].absolutePath = TargetOf(BaseDir, RefSibling)
           /\ ~IsInsideOrEqual(probe.result.value[i].absolutePath, BaseDir)

FirstIndexOf(entries, handlerName) ==
    CHOOSE i \in 1..Len(entries) :
        /\ entries[i].operation.handler.v = handlerName
        /\ \A j \in 1..(i - 1) : entries[j].operation.handler.v # handlerName

CarriesId(entry) ==
    entry.operation.operationId # <<>> \/ entry.operation.xEovOperationId # <<>>

\* C6: for a specification with a paths mapping, extractHandlerModules
\* returns one HandlerModuleInfo per distinct handler string found on the
\* operation objects ('parameters' and 'servers' skipped), in the order of
\* first encounter; operationIds holds, in traversal order, one id of every
\* operation that references the handler and carries an id, and nothing for
\* the operations without an id.
C6_OneModulePerHandlerInOrder ==
    (probe.called /\ ~probe.apiSpec.isPath /\ probe.result.ok)
    => LET entries == ReferencingEntries(probe.apiSpec.doc)
           modules == probe.result.value
       IN  /\ {modules[i].moduleName : i \in 1..Len(modules)}
                  = {entries[j].operation.handler.v : j \in 1..Len(entries)}
           /\ \A i, j \in 1..Len(modules) :
                  i < j => /\ modules[i].moduleName # modules[j].moduleName
                           /\ FirstIndexOf(entries, modules[i].moduleName)
                                  < FirstIndexOf(entries, modules[j].moduleName)
           /\ \A i \in 1..Len(modules) :
                  LET Mine(e) == /\ e.operation.handler.v = modules[i].moduleName
                                 /\ CarriesId(e)
                      mine    == SelectSeq(entries, Mine)
                      ids     == modules[i].operationIds
                  IN  /\ modules[i].relativePath = modules[i].moduleName
                      /\ Len(ids) = Len(mine)
                      /\ \A k \in 1..Len(ids) :
                             /\ ids[k] # <<>>
                             /\ ids[k] \in {mine[k].operation.operationId,
                                            mine[k].operation.xEovOperationId}

\* C6 witness: a document whose handler is referenced by two operations
\* with ids, next to an operation of another handler without an id.
C6_Witness ==
    /\ probe.called
    /\ probe.result.ok
    /\ probe.apiSpec = SpecObject(Document(
           <<Entry("get", OpB), Entry("get", OpA1), Entry("get", OpA2)>>))
    /\ Len(probe.result.value) = 2
    /\ probe.result.value[1].operationIds = <<>>
    /\ Len(probe.result.value[2].operationIds) = 2

\* Whether the import of a discovered module throws, and with what message.
ImportFails(module) ==
    LET file == resolveModulePath(module.absolutePath)
    IN  file \notin ExistingFiles \/ file \in ThrowingFiles

CauseOfFailure(module) ==
    IF resolveModulePath(module.absolutePath) \notin ExistingFiles
        THEN "Cannot find module"
    ELSE "boom"

\* C7: when the import of the k-th module throws, importAndRegisterHandlers
\* rejects with an error naming that module and its path and carrying the
\* cause's message; no mapping is returned to the callback, and the modules
\* after k are neither imported nor registered: the failing turn leaves the
\* cache as it was and the call takes no further turn.
C7_ImportFailureAborts ==
    [][\A b \in Builds :
           LET pre  == builds[b]
               post == builds'[b]
           IN  /\ (/\ pre.pc = "importing"
                   /\ pre.idx <= Len(pre.modules)
                   /\ post # pre
                   /\ ImportFails(pre.modules[pre.idx]))
                  => /\ post.pc = "rejected"
                     /\ post.error =
                            Err("HandlerImportFailure",
                                pre.modules[pre.idx].moduleName,
                                pre.modules[pre.idx].absolutePath,
                                CauseOfFailure(pre.modules[pre.idx]))
                     /\ post.initCalls = <<>>
                     /\ post.factoryCalls = 0
                     /\ post.importedHandlers = pre.importedHandlers
                     /\ post.idx = pre.idx
                     /\ moduleCache' = moduleCache
               /\ pre.pc = "rejected" => post = pre]_vars

\* C7 witness: build 1 was rejected at the second of three modules, after
\* importing the first.
C7_Witness ==
    /\ builds[1].pc = "rejected"
    /\ builds[1].error.kind = "HandlerImportFailure"
    /\ builds[1].error.module = RefBad
    /\ Len(builds[1].modules) = 3
    /\ builds[1].idx = 2
    /\ DOMAIN builds[1].importedHandlers = {RefA}

\* C8: in a build with a handler base path, initializeHandlers is called
\* only once every discovered module has been imported and registered, it
\* receives the mapping of all of them by module name, and its promise has
\* settled fulfilled before the validator middleware factory is called.
C8_InitAfterImportBeforeFactory ==
    \A b \in Builds :
        LET bd == builds[b]
        IN  HasBaseDirectory(bd)
            => /\ bd.initCalls # <<>>
                  => /\ Len(bd.initCalls) = 1
                     /\ bd.initCalls[1].hasArgument
                     /\ bd.idx = Len(bd.modules) + 1
                     /\ DOMAIN bd.initCalls[1].handlers
                            = {bd.modules[i].moduleName : i \in 1..Len(bd.modules)}
                     /\ \A i \in 1..Len(bd.modules) :
                            LET M == bd.modules[i]
                            IN  /\ M.absolutePath \in DOMAIN moduleCache
                                /\ bd.initCalls[1].handlers[M.moduleName]
                                       = ModuleObject("esm", PathToFileURL(
                                             resolveModulePath(M.absolutePath)))
               /\ (bd.factoryCalls > 0 /\ bd.options.initializeHandlers)
                  => /\ bd.initCalls # <<>>
                     /\ bd.initStatus = "fulfilled"

\* C8 witness: build 1 called the factory after a callback that received
\* two or more modules.
C8_Witness ==
    /\ HasBaseDirectory(builds[1])
    /\ builds[1].options.initializeHandlers
    /\ builds[1].factoryCalls = 1
    /\ Len(builds[1].modules) >= 2
    /\ builds[1].initStatus = "fulfilled"

\* C9: whenever openApiValidator carries an initializeHandlers callback, a
\* successful build has called it exactly once: with the imported modules
\* when a handler base directory is configured, with no argument otherwise
\* (operationHandlers absent, false, or an object without basePath).
C9_InitializeHandlersCalledOnce ==
    \A b \in Builds :
        LET bd == builds[b]
        IN  (bd.pc = "resolved" /\ bd.options.openApiValidator
             /\ bd.options.initializeHandlers)
            => /\ Len(bd.initCalls) = 1
               /\ bd.initCalls[1].hasArgument <=> HasBaseDirectory(bd)

\* C9 divergence: a build with operationHandlers given as an object without
\* basePath resolved without ever calling the supplied callback.
C9_Witness ==
    /\ builds[1].pc = "resolved"
    /\ builds[1].options.openApiValidator
    /\ builds[1].options.initializeHandlers
    /\ builds[1].options.operationHandlers.kind = "object"
    /\ builds[1].options.operationHandlers.basePath = <<>>
    /\ builds[1].initCalls = <<>>

\* C10: when the validator package cannot be loaded, getApplication rejects
\* with the 'express-openapi-validator package is required' error: no
\* application is returned, and neither the validator, the caller's routes
\* nor the problem-details middleware are mounted.
C10_MissingValidatorRejects ==
    \A b \in Builds :
        LET bd == builds[b]
        IN  (bd.options.openApiValidator /\ bd.tail.validatorLoad = "missing")
            => /\ bd.pc = "rejected"
               /\ bd.error = ValidatorRequired
               /\ bd.factoryCalls = 0
               /\ Range(bd.layers) \cap {"validator", "router", "problemDetails"}
                      = {}

\* C10 witness: build 1 found the package missing after its callback had
\* run.
C10_Witness ==
    /\ builds[1].pc = "rejected"
    /\ builds[1].options.openApiValidator
    /\ builds[1].tail.validatorLoad = "missing"
    /\ builds[1].initStatus = "fulfilled"

\* The error the builder ends with when the step its build is at fails, or
\* NoError when that step does not fail.
FailureOfStep(bd) ==
    IF bd.pc = "extracting"
        THEN LET extracted == extractHandlerModules(
                                  bd.options.apiSpec,
                                  HandlersBasePath(bd.options.operationHandlers))
             IN  IF extracted.ok THEN NoError ELSE extracted.error
    ELSE IF bd.pc = "importing" /\ bd.idx <= Len(bd.modules)
        THEN IF ImportFails(bd.modules[bd.idx])
                 THEN Err("HandlerImportFailure",
                          bd.modules[bd.idx].moduleName,
                          bd.modules[bd.idx].absolutePath,
                          CauseOfFailure(bd.modules[bd.idx]))
             ELSE NoError
    ELSE IF bd.pc = "initializing" /\ bd.initStatus = "rejected"
        THEN Err("InitializeHandlers", <<>>, <<>>, "init failed")
    ELSE NoError

\* C11: when spec loading, handler discovery, handler import or the
\* initializeHandlers callback fails, getApplication rejects with that same
\* error: the failed step is not run again, the validator factory is never
\* called, nothing but the body parsers has been mounted (no routes, no
\* error middleware), and the build never resolves with an application.
C11_BuildFailurePropagates ==
    [][\A b \in Builds :
           LET pre  == builds[b]
               post == builds'[b]
           IN  /\ (post # pre /\ FailureOfStep(pre) # NoError)
                  => /\ post.pc = "rejected"
                     /\ post.error = FailureOfStep(pre)
                     /\ post.factoryCalls = 0
                     /\ post.layers = BodyParsers(pre.options)
                     /\ post.initCalls = pre.initCalls
                     /\ post.idx = pre.idx
                     /\ post.modules = pre.modules
               /\ pre.pc = "rejected" => post = pre]_vars

\* C11 witness: build 1 imported its modules, its callback rejected, and
\* the build was rejected with the callback's error.
C11_Witness ==
    /\ builds[1].pc = "rejected"
    /\ builds[1].error.kind = "InitializeHandlers"
    /\ HasBaseDirectory(builds[1])
    /\ Len(builds[1].modules) >= 2
    /\ builds[1].initStatus = "rejected"
    /\ builds[1].factoryCalls = 0

----------------------------------------------------------------------------
(* Error-to-problem mapping (problemDetailsMiddleware).                    *)

\* The JavaScript values an error carries under status and errorCode.
JsNumber(n) == [t |-> "number", n |-> n]

JsString == [t |-> "string", n |-> 0]

JsUndefined == [t |-> "undefined", n |-> 0]

JsNull == [t |-> "null", n |-> 0]

ErrorObject(message, status, errorCode) ==
    [message |-> message, status |-> status, errorCode |-> errorCode]

\* new ProblemDocument({ detail, status })
ProblemDocument(detail, status) ==
    [t |-> "document", detail |-> detail, status |-> status]

\* let statusCode = 500
DefaultStatusCode == 500

\* typeof v === 'number' && v >= 100 && v < 600
IsStatusCode(v) == v.t = "number" /\ v.n >= 100 /\ v.n < 600

\* A mapping that lets the first valid field win.
defaultErrorToProblemDetailsMapping_statusFirst(error) ==
    ProblemDocument(error.message,
                    IF IsStatusCode(error.status) THEN error.status.n
                    ELSE IF IsStatusCode(error.errorCode) THEN error.errorCode.n
                    ELSE DefaultStatusCode)

\* defaultErrorToProblemDetailsMapping: statusCode is assigned in turn from
\* the default, the status field and the errorCode field.
defaultErrorToProblemDetailsMapping(error) ==
    LET initial     == DefaultStatusCode
        afterStatus == IF IsStatusCode(error.status) THEN error.status.n
                       ELSE initial
        statusCode  == IF IsStatusCode(error.errorCode) THEN error.errorCode.n
                       ELSE afterStatus
    IN  ProblemDocument(error.message, statusCode)

\* The caller's mapError: absent, or a function that returns a problem
\* document, undefined or null for the error it is given.
MapErrorKinds == {"absent", "document", "undefined", "null"}

MapErrorResult(mapError, document) ==
    IF mapError = "document" THEN document
    ELSE IF mapError = "null" THEN JsNull
    ELSE JsUndefined

\* A coalescing that takes only undefined for nothing.
NullishCoalesce_undefinedOnly(value, fallback) ==
    IF value.t = "undefined" THEN fallback ELSE value

\* value ?? fallback
NullishCoalesce(value, fallback) ==
    IF value.t \in {"undefined", "null"} THEN fallback ELSE value

\* sendProblem(response, statusCode, { problem }): the problem document is
\* written as the body of a response with that status.
sendProblem(sent, statusCode, problem) ==
    Append(sent, [status |-> statusCode,
                  contentType |-> "application/problem+json",
                  body |-> problem])

\* What a call of the error middleware does: the responses it sends, its
\* calls of next, whether the default mapping supplied the document, and
\* whether it threw.
MiddlewareEffect(sent, nextCalls, defaultApplied, thrown) ==
    [sent |-> sent, nextCalls |-> nextCalls,
     defaultApplied |-> defaultApplied, thrown |-> thrown]

\* problemDetailsMiddleware(mapError)(error, request, response, _next)
problemDetailsMiddleware(mapError, document, error) ==
    LET mapped         == IF mapError # "absent"
                              THEN MapErrorResult(mapError, document)
                          ELSE JsUndefined
        problemDetails == NullishCoalesce(
                              mapped, defaultErrorToProblemDetailsMapping(error))
    IN  IF problemDetails.t # "document"
            THEN MiddlewareEffect(<<>>, 0, FALSE, TRUE)
        ELSE MiddlewareEffect(
                 sendProblem(<<>>, problemDetails.status, problemDetails),
                 0, mapped.t # "document", FALSE)

\* The errors, caller documents and mapError functions of the calls.
FieldValues ==
    {JsUndefined, JsString} \cup {JsNumber(n) : n \in {99, 100, 404, 599, 600}}

ErrorMessages == {<<"b", "o", "o", "m">>, <<>>}

ProblemErrors ==
    {ErrorObject(message, status, errorCode) :
         message \in ErrorMessages, status \in FieldValues,
         errorCode \in FieldValues}

CallerDocuments ==
    {ProblemDocument(<<"c", "u", "s", "t", "o", "m">>, 418),
     ProblemDocument(<<>>, 500)}

NoEffect == MiddlewareEffect(<<>>, 0, FALSE, FALSE)

InitProblem ==
    /\ BuildIdle
    /\ CallsIdle
    /\ etagCall = NotCalled
    /\ logCall = NotCalled
    /\ authCall = NotCalled
    /\ streams = <<>>
    /\ requests = <<>>
    /\ problemCall \in
           {[called |-> FALSE, mapped |-> FALSE, mapError |-> mapError,
             document |-> document, error |-> error, effect |-> NoEffect,
             problem |-> ProblemDocument(<<>>, 0)] :
                mapError \in MapErrorKinds, document \in CallerDocuments,
                error \in ProblemErrors}

\* An error reaches the error middleware mounted by getApplication.
ErrorReachesMiddleware ==
    /\ ~problemCall.called
    /\ problemCall' = [problemCall EXCEPT
           !.called = TRUE,
           !.effect = problemDetailsMiddleware(problemCall.mapError,
                                               problemCall.document,
                                               problemCall.error)]
    /\ UNCHANGED <<buildVars, etagCall, logCall, authCall, streams, requests, callVars>>

\* The exported default mapping is called on the error.
DefaultMappingCalled ==
    /\ ~problemCall.mapped
    /\ problemCall' = [problemCall EXCEPT
           !.mapped = TRUE,
           !.problem = defaultErrorToProblemDetailsMapping(problemCall.error)]
    /\ UNCHANGED <<buildVars, etagCall, logCall, authCall, streams, requests, callVars>>

NextProblem ==
    \/ ErrorReachesMiddleware
    \/ DefaultMappingCalled

SpecProblem == InitProblem /\ [][NextProblem]_vars

C14_MapErrorFirst ==
    problemCall.called
    => LET effect == problemCall.effect
       IN  /\ Len(effect.sent) = 1
           /\ effect.nextCalls = 0
           /\ ~effect.thrown
           /\ effect.sent[1].contentType = "application/problem+json"
           /\ effect.sent[1].status = effect.sent[1].body.status
           /\ problemCall.mapError = "document"
              => /\ effect.sent[1].body = problemCall.document
                 /\ ~effect.defaultApplied
           /\ problemCall.mapError # "document"
              => /\ effect.defaultApplied
                 /\ effect.sent[1].body.detail = problemCall.error.message
                 /\ effect.sent[1].body.status \in
                        {500, problemCall.error.status.n,
                         problemCall.error.errorCode.n}
                 /\ effect.sent[1].body.status \in 100..599

\* C14 witness: a mapError that returned null for an error carrying status
\* 404, answered by the default mapping.
C14_Witness ==
    /\ problemCall.called
    /\ problemCall.mapError = "null"
    /\ problemCall.error.status = JsNumber(404)
    /\ problemCall.error.errorCode = JsUndefined
    /\ Len(problemCall.effect.sent) = 1
    /\ problemCall.effect.sent[1].status = 404

----------------------------------------------------------------------------
(* ETag helpers (etag).                                                    *)

Quote == "\""

DecimalDigits == <<"0", "1", "2", "3", "4", "5", "6", "7", "8", "9">>

IsDigit(c) == \E d \in 1..10 : DecimalDigits[d] = c

\* The decimal digits of a natural number, as template literals print them.
RECURSIVE NaturalToString(_)
NaturalToString(n) ==
    IF n < 10 THEN <<DecimalDigits[n + 1]>>
    ELSE NaturalToString(n \div 10) \o <<DecimalDigits[(n % 10) + 1]>>

\* The values toWeakETag takes: a number, a bigint or a string.
ETagNumber(n) == [t |-> "number", n |-> n, s |-> <<>>]

ETagBigInt(n) == [t |-> "bigint", n |-> n, s |-> <<>>]

ETagString(str) == [t |-> "string", n |-> 0, s |-> str]

\* `${value}`
Stringify(value) ==
    IF value.t = "string" THEN value.s
    ELSE IF value.n < 0 THEN <<"-">> \o NaturalToString(0 - value.n)
    ELSE NaturalToString(value.n)

\* An encoder that leaves the quotes out.
toWeakETag_unquoted(value) == <<"W", "/">> \o Stringify(value)

\* toWeakETag
toWeakETag(value) == <<"W", "/", Quote>> \o Stringify(value) \o <<Quote>>

\* The places where /W\/"(-?\d+.*)"/ can start matching in a string: W/"
\* there, then an optional minus, a digit, and a quote somewhere after it.
FirstDigitAt(str, i) ==
    IF i + 3 <= Len(str) /\ str[i + 3] = "-" THEN i + 4 ELSE i + 3

MatchStarts(str) ==
    {i \in 1..Len(str) :
        /\ i + 2 <= Len(str)
        /\ str[i] = "W" /\ str[i + 1] = "/" /\ str[i + 2] = Quote
        /\ FirstDigitAt(str, i) <= Len(str)
        /\ IsDigit(str[FirstDigitAt(str, i)])
        /\ \E j \in (FirstDigitAt(str, i) + 1)..Len(str) : str[j] = Quote}

Minimum(S) == CHOOSE x \in S : \A y \in S : x <= y

Maximum(S) == CHOOSE x \in S : \A y \in S : y <= x

\* WeakETagRegex.exec(etag): the leftmost match, its group taken greedily up
\* to the last quote of the string.
WeakETagRegexExec(etag) ==
    IF MatchStarts(etag) = {} THEN [matched |-> FALSE, group |-> <<>>]
    ELSE LET i == Minimum(MatchStarts(etag))
             j == Maximum({k \in 1..Len(etag) : etag[k] = Quote})
         IN  [matched |-> TRUE, group |-> SubSeq(etag, i + 3, j - 1)]

\* isWeakETag
isWeakETag(etag) == WeakETagRegexExec(etag).matched

\* getWeakETagValue
getWeakETagValue(etag) ==
    IF ~WeakETagRegexExec(etag).matched
        THEN Thrown(Err("WRONG_WEAK_ETAG_FORMAT", <<>>, <<>>, ""))
    ELSE Returned(WeakETagRegexExec(etag).group)

\* A header of a request: absent, one string, or several values.
HeaderAbsent == [t |-> "undefined", values |-> <<>>]

HeaderString(str) == [t |-> "string", values |-> <<str>>]

HeaderArray(strs) == [t |-> "array", values |-> strs]

\* request.headers: the two headers the helpers read.
RequestHeaders(ifMatch, ifNotMatch) ==
    [ifMatch |-> ifMatch, ifNotMatch |-> ifNotMatch]

MissingIfMatchHeader == Err("MISSING_IF_MATCH_HEADER", <<>>, <<>>, "")

\* getETagFromIfMatch
getETagFromIfMatch(headers) ==
    IF headers.ifMatch.t = "undefined" THEN Thrown(MissingIfMatchHeader)
    ELSE [ok |-> TRUE, value |-> headers.ifMatch.values[1], error |-> NoError]

\* A reader that takes a header of several values whole.
getETagFromIfNotMatch_whole(headers) ==
    IF headers.ifNotMatch.t = "undefined" THEN Thrown(MissingIfMatchHeader)
    ELSE [ok |-> TRUE, value |-> headers.ifNotMatch.values, error |-> NoError]

\* getETagFromIfNotMatch
getETagFromIfNotMatch(headers) ==
    IF headers.ifNotMatch.t = "undefined" THEN Thrown(MissingIfMatchHeader)
    ELSE [ok |-> TRUE, value |-> headers.ifNotMatch.values[1], error |-> NoError]

\* A reader that decodes every header it is given.
getETagValueFromIfMatch_alwaysDecode(headers) ==
    IF ~getETagFromIfMatch(headers).ok THEN getETagFromIfMatch(headers)
    ELSE [ok |-> TRUE,
          value |-> WeakETagRegexExec(getETagFromIfMatch(headers).value).group,
          error |-> NoError]

\* getETagValueFromIfMatch
getETagValueFromIfMatch(headers) ==
    LET eTagValue == getETagFromIfMatch(headers)
    IN  IF ~eTagValue.ok THEN eTagValue
        ELSE IF isWeakETag(eTagValue.value)
            THEN [ok |-> TRUE,
                  value |-> getWeakETagValue(eTagValue.value).value,
                  error |-> NoError]
        ELSE eTagValue

\* The values and headers of the calls.
MaxETagNumber == 120

ETagValues ==
    {ETagNumber(n) : n \in (0 - 2)..MaxETagNumber}
    \cup {ETagBigInt(n) : n \in 0..MaxETagNumber}
    \cup {ETagString(<<"a", "b", "c">>), ETagString(<<"1", "2", "3">>),
          ETagString(<<>>)}

WeakPayloads ==
    {<<"4", "2">>, <<"0">>, <<"-", "1">>, <<"4", "2", "a", "b", "c">>,
     <<"1", "2", "3">>}

StrongTags == {<<Quote, "4", "2", Quote>>, <<Quote, "a", "b", "c", Quote>>}

OtherTags ==
    {<<"W", "/", Quote, "a", "b", "c", Quote>>, <<"W", "/", "1">>,
     <<"i", "n", "v", "a", "l", "i", "d">>, <<"W", "/", Quote>>,
     <<"W", "/", Quote, "-", Quote>>, <<"4", "2">>, <<>>}

HeaderTags ==
    {toWeakETag(ETagString(payload)) : payload \in WeakPayloads}
    \cup StrongTags \cup OtherTags

IfMatchHeaders == {HeaderAbsent} \cup {HeaderString(tag) : tag \in HeaderTags}

IfNotMatchHeaders ==
    IfMatchHeaders
    \cup {HeaderArray(<<first, second>>) :
              first \in StrongTags \cup {<<"W", "/", Quote, "4", "2", Quote>>},
              second \in {<<"W", "/", Quote, "4", "3", Quote>>}}

ETagOps == {"toWeakETag", "getETagFromIfMatch", "getETagValueFromIfMatch",
            "getETagFromIfNotMatch"}

ETagCall(op, value, headers) ==
    [called |-> FALSE, op |-> op, value |-> value, headers |-> headers,
     encoded |-> <<>>, result |-> Thrown(NoError)]

InitETag ==
    /\ BuildIdle
    /\ CallsIdle
    /\ problemCall = NotCalled
    /\ logCall = NotCalled
    /\ authCall = NotCalled
    /\ streams = <<>>
    /\ requests = <<>>
    /\ etagCall \in
           {ETagCall("toWeakETag", value, RequestHeaders(HeaderAbsent, HeaderAbsent)) :
                value \in ETagValues}
           \cup {ETagCall(op, ETagString(<<>>), RequestHeaders(header, HeaderAbsent)) :
                     op \in {"getETagFromIfMatch", "getETagValueFromIfMatch"},
                     header \in IfMatchHeaders}
           \cup {ETagCall("getETagFromIfNotMatch", ETagString(<<>>),
                          RequestHeaders(HeaderAbsent, header)) :
                     header \in IfNotMatchHeaders}

\* A value is encoded and the tag decoded again.
EncodeAndDecode ==
    /\ ~etagCall.called
    /\ etagCall.op = "toWeakETag"
    /\ etagCall' = [etagCall EXCEPT
           !.called = TRUE,
           !.encoded = toWeakETag(etagCall.value),
           !.result = getWeakETagValue(toWeakETag(etagCall.value))]
    /\ UNCHANGED <<buildVars, problemCall, logCall, authCall, streams, requests, callVars>>

ReadIfMatch ==
    /\ ~etagCall.called
    /\ etagCall.op = "getETagFromIfMatch"
    /\ etagCall' = [etagCall EXCEPT
           !.called = TRUE,
           !.result = getETagFromIfMatch(etagCall.headers)]
    /\ UNCHANGED <<buildVars, problemCall, logCall, authCall, streams, requests, callVars>>

ReadIfMatchValue ==
    /\ ~etagCall.called
    /\ etagCall.op = "getETagValueFromIfMatch"
    /\ etagCall' = [etagCall EXCEPT
           !.called = TRUE,
           !.result = getETagValueFromIfMatch(etagCall.headers)]
    /\ UNCHANGED <<buildVars, problemCall, logCall, authCall, streams, requests, callVars>>

ReadIfNotMatch ==
    /\ ~etagCall.called
    /\ etagCall.op = "getETagFromIfNotMatch"
    /\ etagCall' = [etagCall EXCEPT
           !.called = TRUE,
           !.result = getETagFromIfNotMatch(etagCall.headers)]
    /\ UNCHANGED <<buildVars, problemCall, logCall, authCall, streams, requests, callVars>>

NextETag ==
    \/ EncodeAndDecode
    \/ ReadIfMatch
    \/ ReadIfMatchValue
    \/ ReadIfNotMatch

SpecETag == InitETag /\ [][NextETag]_vars

\* The number a string of decimal digits denotes.
RECURSIVE DecimalValue(_)
DecimalValue(digits) ==
    IF digits = <<>> THEN 0
    ELSE 10 * DecimalValue(SubSeq(digits, 1, Len(digits) - 1))
         + ((CHOOSE d \in 1..10 : DecimalDigits[d] = digits[Len(digits)]) - 1)

\* digits is the decimal numeral of n: digits only, no leading zero.
IsDecimalOf(digits, n) ==
    /\ Len(digits) >= 1
    /\ \A i \in 1..Len(digits) : IsDigit(digits[i])
    /\ Len(digits) > 1 => digits[1] # "0"
    /\ DecimalValue(digits) = n

\* C15: for every number and bigint n >= 0, toWeakETag(n) is W/"<decimal
\* n>" and getWeakETagValue of that tag is the decimal numeral of n.
C15_WeakETagRoundTrip ==
    (/\ etagCall.called
     /\ etagCall.op = "toWeakETag"
     /\ etagCall.value.t \in {"number", "bigint"}
     /\ etagCall.value.n >= 0)
    => LET tag == etagCall.encoded
       IN  /\ etagCall.result.ok
           /\ IsDecimalOf(etagCall.result.value, etagCall.value.n)
           /\ tag = <<"W", "/", Quote>> \o etagCall.result.value \o <<Quote>>

\* C15 witness: the bigint 107 encoded and decoded.
C15_Witness ==
    /\ etagCall.called
    /\ etagCall.op = "toWeakETag"
    /\ etagCall.value = ETagBigInt(107)
    /\ etagCall.encoded = <<"W", "/", Quote, "1", "0", "7", Quote>>
    /\ etagCall.result.value = <<"1", "0", "7">>

\* tag is W/"<payload>" with a payload that starts with an optional minus
\* and a digit.
IsWeakTag(tag) ==
    /\ Len(tag) >= 5
    /\ SubSeq(tag, 1, 3) = <<"W", "/", Quote>>
    /\ tag[Len(tag)] = Quote
    /\ \/ IsDigit(tag[4])
       \/ tag[4] = "-" /\ Len(tag) >= 6 /\ IsDigit(tag[5])

----------------------------------------------------------------------------
(* Logging (observability).                                                *)

\* The values passed as data: undefined, null, a plain object, an array, a
\* string, an Error instance.
DataKinds == {"undefined", "null", "object", "array", "string", "error"}

LogData(kind) == [t |-> kind]

LogMessage(text) == [t |-> "string", text |-> text]

\* A context object: its keys, and the data it was made from.
LogContext(keys, from) == [t |-> "object", keys |-> keys, from |-> from]

\* typeof data === 'object' && !Array.isArray(data), for data that is
\* neither undefined nor null.
IsPlainObject(data) == data.t \in {"object", "error"}

\* normalizeContext
normalizeContext(data) ==
    IF data.t \in {"undefined", "null"} THEN LogContext("none", data.t)
    ELSE IF IsPlainObject(data) THEN LogContext("own", data.t)
    ELSE LogContext("data", data.t)

\* normalizeWarnContext
normalizeWarnContext(data) ==
    IF data.t \in {"undefined", "null"} THEN LogContext("none", data.t)
    ELSE IF data.t = "error" THEN LogContext("err", data.t)
    ELSE IF IsPlainObject(data) THEN LogContext("own", data.t)
    ELSE LogContext("data", data.t)

\* A translation whose last case wraps the value under the data key.
normalizeErrorContext_dataKey(error) ==
    IF error.t \in {"undefined", "null"} THEN LogContext("none", error.t)
    ELSE IF error.t = "error" THEN LogContext("err", error.t)
    ELSE IF IsPlainObject(error) THEN LogContext("own", error.t)
    ELSE LogContext("data", error.t)

\* normalizeErrorContext
normalizeErrorContext(error) ==
    IF error.t \in {"undefined", "null"} THEN LogContext("none", error.t)
    ELSE IF error.t = "error" THEN LogContext("err", error.t)
    ELSE IF IsPlainObject(error) THEN LogContext("own", error.t)
    ELSE LogContext("err", error.t)

\* The normalizer each method of safeLog applies.
ContextFor(level, data) ==
    IF level = "warn" THEN normalizeWarnContext(data)
    ELSE IF level = "error" THEN normalizeErrorContext(data)
    ELSE normalizeContext(data)

\* One call of a method of the injected logger.
LoggerCall(method, args) == [method |-> method, args |-> args]

\* A translation that hands the logger (message, data).
safeLog_messageFirst(level, logger, msg, data) ==
    IF logger # "present" THEN <<>>
    ELSE <<LoggerCall(level, <<msg, ContextFor(level, data)>>)>>

\* safeLog.debug / info / warn / error: the calls made on the logger.
safeLog(level, logger, msg, data) ==
    IF logger # "present" THEN <<>>
    ELSE <<LoggerCall(level, <<ContextFor(level, data), msg>>)>>

Loggers == {"undefined", "null", "present"}

LogMessages == {LogMessage(<<"h", "i">>), LogMessage(<<>>)}

InitLog ==
    /\ BuildIdle
    /\ CallsIdle
    /\ problemCall = NotCalled
    /\ etagCall = NotCalled
    /\ authCall = NotCalled
    /\ streams = <<>>
    /\ requests = <<>>
    /\ logCall \in {[called |-> FALSE, level |-> "none", logger |-> logger,
                     msg |-> msg, data |-> LogData(kind), calls |-> <<>>] :
                        logger \in Loggers, msg \in LogMessages,
                        kind \in DataKinds}

Logged(level) ==
    /\ ~logCall.called
    /\ logCall' = [logCall EXCEPT
           !.called = TRUE,
           !.level = level,
           !.calls = safeLog(level, logCall.logger, logCall.msg, logCall.data)]
    /\ UNCHANGED <<buildVars, problemCall, etagCall, authCall, streams, requests, callVars>>

safeLog_debug == Logged("debug")

safeLog_info == Logged("info")

safeLog_warn == Logged("warn")

safeLog_error == Logged("error")

NextLog ==
    \/ safeLog_debug
    \/ safeLog_info
    \/ safeLog_warn
    \/ safeLog_error

SpecLog == InitLog /\ [][NextLog]_vars

----------------------------------------------------------------------------
(* Firebase security handler (openapi/firebase-auth).                      *)

\* options.roleClaim: left out, or a claim name.
RoleClaimUnset == [t |-> "undefined", name |-> ""]

RoleClaimNamed(name) == [t |-> "string", name |-> name]

\* A claim of the decoded token: missing, a string, or an array of roles.
ClaimMissing == [t |-> "undefined", items |-> {}]

ClaimString == [t |-> "string", items |-> {}]

ClaimArray(items) == [t |-> "array", items |-> items]

\* req.auth as the middleware left it: unset, or holding the decoded token.
AuthUnset == [present |-> FALSE, token |-> [c \in {"roles", "permissions"} |-> ClaimMissing]]

AuthOf(token) == [present |-> TRUE, token |-> token]

\* One run of the middleware the package supplies, as the handler sees it:
\* whether it called next, how its promise settled, and req.auth afterwards.
MiddlewareRun(nextCalled, settled, auth) == [nextCalled |-> nextCalled, settled |-> settled, auth |-> auth]

FirebaseAuthRequired == Err("FirebaseAuthRequired", <<>>, <<>>, "import")

\* loadFirebaseAuth: the import fails, or the module has no
\* firebaseAuthMiddleware function, or the provider is returned.
loadFirebaseAuth(package) ==
    IF package = "ok" THEN Returned(package) ELSE Thrown(FirebaseAuthRequired)

\* runMiddleware: resolve(true) inside next; resolve(false) when the
\* middleware's promise settles without next having been called.
runMiddleware(run) ==
    IF run.nextCalled THEN TRUE
    ELSE IF run.settled = "fulfilled" THEN FALSE
    ELSE FALSE

\* options.roleClaim ?? 'roles'
RoleClaimOf(option) == IF option.t = "undefined" THEN "roles" ELSE option.name

\* req?.auth?.token?.[roleClaim]
RolesOf(auth, roleClaim) == IF auth.present THEN auth.token[roleClaim] ELSE ClaimMissing

\* A translation that accepts any one of the required scopes.
HasEveryScope_some(scopes, roles) ==
    \E i \in 1..Len(scopes) : scopes[i] \in roles.items

\* scopes.every(scope => roles.includes(scope))
HasEveryScope(scopes, roles) ==
    \A i \in 1..Len(scopes) : scopes[i] \in roles.items

\* The handler createFirebaseAuthSecurityHandlers registers under the
\* scheme name.
SecurityHandler(option, package, run, scopes) ==
    LET loaded == loadFirebaseAuth(package)
        isAuthenticated == runMiddleware(run)
        roles == RolesOf(run.auth, RoleClaimOf(option))
    IN  IF ~loaded.ok THEN Thrown(loaded.error)
        ELSE IF ~isAuthenticated THEN Returned(FALSE)
        ELSE IF Len(scopes) = 0 THEN Returned(TRUE)
        ELSE IF roles.t # "array" THEN Returned(FALSE)
        ELSE Returned(HasEveryScope(scopes, roles))

Packages == {"ok", "missing", "invalid"}

RoleClaimOptions == {RoleClaimUnset, RoleClaimNamed("roles"), RoleClaimNamed("permissions")}

ClaimValues == {ClaimMissing, ClaimString, ClaimArray({"admin"}), ClaimArray({"admin", "user"})}

AuthValues == {AuthUnset} \cup {AuthOf(token) : token \in [{"roles", "permissions"} -> ClaimValues]}

MiddlewareRuns == {MiddlewareRun(n, s, a) : n \in BOOLEAN, s \in {"fulfilled", "rejected"}, a \in AuthValues}

ScopeLists == {<<>>, <<"admin">>, <<"user">>, <<"admin", "user">>}

InitAuth ==
    /\ BuildIdle
    /\ CallsIdle
    /\ problemCall = NotCalled
    /\ etagCall = NotCalled
    /\ logCall = NotCalled
    /\ streams = <<>>
    /\ requests = <<>>
    /\ authCall \in {[called |-> FALSE, option |-> option, package |-> package,
                      run |-> run, scopes |-> scopes, result |-> Returned(FALSE)] :
                         option \in RoleClaimOptions, package \in Packages,
                         run \in MiddlewareRuns, scopes \in ScopeLists}

SecurityHandlerCalled ==
    /\ ~authCall.called
    /\ authCall' = [authCall EXCEPT
           !.called = TRUE,
           !.result = SecurityHandler(authCall.option, authCall.package,
                                      authCall.run, authCall.scopes)]
    /\ UNCHANGED <<buildVars, problemCall, etagCall, logCall, streams, requests, callVars>>

NextAuth == SecurityHandlerCalled

SpecAuth == InitAuth /\ [][NextAuth]_vars

\* The claim of the decoded token the handler is configured to read.
ConfiguredClaim(call) ==
    IF ~call.run.auth.present THEN ClaimMissing
    ELSE IF call.option = RoleClaimUnset THEN call.run.auth.token["roles"]
    ELSE call.run.auth.token[call.option.name]

\* Every required scope is among the items of an array claim.
Grants(call) ==
    \/ call.scopes = <<>>
    \/ /\ ConfiguredClaim(call).t = "array"
       /\ \A i \in 1..Len(call.scopes) : call.scopes[i] \in ConfiguredClaim(call).items

----------------------------------------------------------------------------
(* Properties of the specification loader.                                 *)

\* The extension of a path in lower case.
LowerExtension(path) ==
    LET ext == PathExtname(path) IN [i \in 1..Len(ext) |-> LowerChar(ext[i])]

\* C20: a specification given as a path is read once from that path; a
\* missing file fails with the not-found error carrying the path; a file
\* that exists is parsed as JSON when its lower-cased extension is .json,
\* as YAML when it is .yaml or .yml, and fails with the unsupported-format
\* error naming the extension otherwise. A specification given as an object
\* is used as it is and no file is read.
C20_SpecLoaderDispatch ==
    probe.called
    => IF ~probe.apiSpec.isPath
           THEN /\ probe.reads = <<>>
                /\ probe.spec = Returned(probe.apiSpec.doc)
       ELSE LET path == probe.apiSpec.path
                ext  == LowerExtension(path)
            IN  /\ probe.reads = <<path>>
                /\ ~SpecFileExists(path)
                   => /\ ~probe.spec.ok
                      /\ probe.spec.error.kind = "SpecNotFound"
                      /\ probe.spec.error.path = path
                /\ (SpecFileExists(path) /\ ext = <<".", "j", "s", "o", "n">>)
                   => probe.spec = JsonParse(SpecFileAt(path))
                /\ (SpecFileExists(path) /\ ext \in {<<".", "y", "a", "m", "l">>, <<".", "y", "m", "l">>})
                   => probe.spec = YamlParse(SpecFileAt(path))
                /\ (SpecFileExists(path) /\ ext \notin {<<".", "j", "s", "o", "n">>, <<".", "y", "a", "m", "l">>, <<".", "y", "m", "l">>})
                   => /\ ~probe.spec.ok
                      /\ probe.spec.error.kind = "UnsupportedFormat"
                      /\ probe.spec.error.path = ext

\* C20 witness: the file /w/api.YML, whose extension is written in upper
\* case, has been read and parsed as YAML.
C20_Witness ==
    /\ probe.called
    /\ probe.apiSpec = SpecPath(ApiYml)
    /\ PathExtname(ApiYml) = <<".", "Y", "M", "L">>
    /\ probe.reads = <<ApiYml>>
    /\ probe.spec = Returned(Document(<<Entry("get", OpB)>>))

----------------------------------------------------------------------------
(* A request served by an application that getApplication built.           *)

\* The response a request has been given; status 0 while there is none.
Response(status, problem, by) == [status |-> status, problem |-> problem, by |-> by]

NoResponse == Response(0, FALSE, "none")

\* The error with which the validator middleware rejects a request that
\* violates the specification: it carries status 400.
ValidationError == ErrorObject(<<"b", "a", "d">>, JsNumber(400), JsUndefined)

NoRequestError == ErrorObject(<<>>, JsUndefined, JsUndefined)

\* A request: what the validator finds wrong with it, whether its operation
\* is served by a route of the caller or by an auto-wired handler, the
\* mapError and validateRequests options of the application it is sent to,
\* the layer it has reached, the error it carries, whether a handler ran.
Request(violation, target, mapError, validateRequests) ==
    [violation |-> violation, target |-> target, mapError |-> mapError,
     validateRequests |-> validateRequests, pos |-> 1, failed |-> FALSE,
     err |-> NoRequestError, handled |-> FALSE, response |-> NoResponse]

\* The application: the first getApplication call of the process.
App == builds[1]

\* The layer the request is at, "end" past the last one.
LayerAt(req) ==
    IF req.pos <= Len(App.layers) THEN App.layers[req.pos] ELSE "end"

Pending(req) == req.response = NoResponse

\* next(): the request moves to the following layer.
PassOn(req) == [req EXCEPT !.pos = @ + 1]

\* next(err)
FailWith(req, err) == [req EXCEPT !.pos = @ + 1, !.failed = TRUE, !.err = err]

\* on(handle): the handler runs and its response is sent.
HandlerRuns(req) ==
    [req EXCEPT !.handled = TRUE, !.response = Response(204, FALSE, "handler")]

\* The problem document the error middleware answers with.
ProblemAnswer(req) ==
    LET effect == problemDetailsMiddleware(
                      req.mapError, ProblemDocument(<<"c", "u", "s", "t", "o", "m">>, 418),
                      req.err)
    IN  Response(effect.sent[1].status, TRUE, "problemDetails")

\* The framework's own error handler: the error's status, no problem document.
FinalAnswer(req) ==
    IF ~req.failed THEN Response(404, FALSE, "finalhandler")
    ELSE IF IsStatusCode(req.err.status) /\ req.err.status.n >= 400
        THEN Response(req.err.status.n, FALSE, "finalhandler")
    ELSE Response(500, FALSE, "finalhandler")

Violations == {"none", "missingField", "belowMinimum"}

Targets == {"route", "operation"}

\* The applications: getApplication's last stretch applied to the options.
ApiBuilds ==
    {ValidatorSection(
         [IdleBuild EXCEPT !.options = options, !.layers = BodyParsers(options)],
         tail) :
       options \in {Options(TRUE, oh, FALSE, SpecObject(DocAB), j, u) :
                        oh \in {OperationHandlers("absent", <<>>),
                                OperationHandlers("string", BaseDir)},
                        j \in BOOLEAN, u \in BOOLEAN},
       tail \in {TailOptions("ok", FALSE, serve, apis, noProblem) :
                     serve \in BOOLEAN, apis \in BOOLEAN, noProblem \in BOOLEAN}}

ApiRequests ==
    {Request(violation, target, mapError, validateRequests) :
         violation \in Violations, target \in Targets,
         mapError \in {"absent", "document", "undefined"},
         validateRequests \in BOOLEAN}

InitApi ==
    /\ isPatched = FALSE
    /\ wraps = 0
    /\ moduleCache = EmptyMap
    /\ lastLoad = NoLoad
    /\ probe = NoProbe
    /\ CallsIdle
    /\ problemCall = NotCalled
    /\ etagCall = NotCalled
    /\ logCall = NotCalled
    /\ authCall = NotCalled
    /\ streams = <<>>
    /\ \E app \in ApiBuilds : builds = [b \in Builds |-> IF b = 1 THEN app ELSE IdleBuild]
    /\ \E req \in ApiRequests : requests = <<req>>

\* express.json() / express.urlencoded(): skipped by a request in error.
BodyParserLayer ==
    /\ Pending(requests[1])
    /\ LayerAt(requests[1]) \in {"json", "urlencoded"}
    /\ requests' = <<PassOn(requests[1])>>
    /\ UNCHANGED <<buildVars, problemCall, etagCall, logCall, authCall, streams, callVars>>

\* The routes that serve the specification document do not match the
\* request of an operation.
ServeSpecLayer ==
    /\ Pending(requests[1])
    /\ LayerAt(requests[1]) \in {"serveSpecStatic", "serveSpecJson"}
    /\ requests' = <<PassOn(requests[1])>>
    /\ UNCHANGED <<buildVars, problemCall, etagCall, logCall, authCall, streams, callVars>>

\* The validator middleware: it rejects a request that violates the
\* specification, and runs the auto-wired handler of a request it accepts.
ValidatorLayer ==
    /\ Pending(requests[1])
    /\ LayerAt(requests[1]) = "validator"
    /\ LET req == requests[1]
       IN  IF req.failed
               THEN /\ requests' = <<PassOn(req)>>
                    /\ UNCHANGED streams
           ELSE IF req.validateRequests /\ req.violation # "none"
               THEN /\ requests' = <<FailWith(req, ValidationError)>>
                    /\ UNCHANGED streams
           ELSE IF req.target = "operation" /\ IsConfigured(App.options.operationHandlers)
               THEN /\ requests' = <<HandlerRuns(req)>>
                    /\ streams' = Append(streams, req.target)
           ELSE /\ requests' = <<PassOn(req)>>
                /\ UNCHANGED streams
    /\ UNCHANGED <<buildVars, problemCall, etagCall, logCall, authCall, callVars>>

\* The router holding the caller's routes.
RouterLayer ==
    /\ Pending(requests[1])
    /\ LayerAt(requests[1]) = "router"
    /\ LET req == requests[1]
       IN  IF ~req.failed /\ req.target = "route"
               THEN /\ requests' = <<HandlerRuns(req)>>
                    /\ streams' = Append(streams, req.target)
           ELSE /\ requests' = <<PassOn(req)>>
                /\ UNCHANGED streams
    /\ UNCHANGED <<buildVars, problemCall, etagCall, logCall, authCall, callVars>>

\* problemDetailsMiddleware(mapError): an error handler, skipped by a
\* request that carries no error.
ProblemDetailsLayer ==
    /\ Pending(requests[1])
    /\ LayerAt(requests[1]) = "problemDetails"
    /\ requests' = IF requests[1].failed
                       THEN <<[requests[1] EXCEPT !.response = ProblemAnswer(requests[1])]>>
                   ELSE <<PassOn(requests[1])>>
    /\ UNCHANGED <<buildVars, problemCall, etagCall, logCall, authCall, streams, callVars>>

\* Past the last layer the framework answers by itself.
FinalHandler ==
    /\ Pending(requests[1])
    /\ LayerAt(requests[1]) = "end"
    /\ requests' = <<[requests[1] EXCEPT !.response = FinalAnswer(requests[1])]>>
    /\ UNCHANGED <<buildVars, problemCall, etagCall, logCall, authCall, streams, callVars>>

NextApi ==
    \/ BodyParserLayer
    \/ ServeSpecLayer
    \/ ValidatorLayer
    \/ RouterLayer
    \/ ProblemDetailsLayer
    \/ FinalHandler

SpecApi == InitApi /\ [][NextApi]_vars

\* The request violates the specification and request validation is on.
Rejectable(req) == req.validateRequests /\ req.violation # "none"

\* The application has a handler for the request's operation.
HasHandler(req) ==
    \/ req.target = "route" /\ App.tail.apis
    \/ req.target = "operation" /\ IsConfigured(App.options.operationHandlers)

\* C12 as stated: with request validation enabled, a request that violates
\* the specification never executes a handler, appends no events and is
\* answered with a 400 problem document; a request that satisfies it
\* reaches its handler.
C12_InvalidRequestsStopAtValidator ==
    LET req == requests[1]
    IN  /\ Rejectable(req)
           => /\ ~req.handled
              /\ streams = <<>>
              /\ ~Pending(req) => (req.response.status = 400 /\ req.response.problem)
        /\ (req.violation = "none" /\ HasHandler(req) /\ ~Pending(req))
           => req.handled

\* C12 amended: as above, the 400 problem document being the answer when
\* the problem-details middleware is mounted and mapError is absent or
\* returns no document; with the middleware disabled the answer is 400
\* without a problem document.
C12_InvalidRequestsStopAtValidator_Amended ==
    LET req == requests[1]
    IN  /\ Rejectable(req)
           => /\ ~req.handled
              /\ streams = <<>>
              /\ (~Pending(req) /\ ~App.tail.disableProblemDetailsMiddleware
                     /\ req.mapError \in {"absent", "undefined", "null"})
                 => (req.response.status = 400 /\ req.response.problem)
              /\ (~Pending(req) /\ App.tail.disableProblemDetailsMiddleware)
                 => (req.response.status = 400 /\ ~req.response.problem)
        /\ (req.violation = "none" /\ HasHandler(req) /\ ~Pending(req))
           => req.handled

\* C12 witness: a request with a required field missing, for an operation
\* the caller's router serves, has been answered with the 400 problem
\* document by an application that mounts validator, router and the
\* problem-details middleware; no handler ran.
C12_Witness ==
    /\ requests[1].violation = "missingField"
    /\ requests[1].validateRequests
    /\ requests[1].target = "route"
    /\ App.tail.apis
    /\ App.layers = <<"json", "urlencoded", "validator", "router", "problemDetails">>
    /\ requests[1].response = Response(400, TRUE, "problemDetails")
    /\ ~requests[1].handled
    /\ streams = <<>>

----------------------------------------------------------------------------
(* Properties of re-registration.                                          *)

----------------------------------------------------------------------------
(* Properties of the builder's last stretch.                               *)

\* C22: a build in which the validator's factory threw the bridge's
\* 'Handler module not registered' error is rejected with that error.
C22_BridgeErrorReachesCaller ==
    \A b \in Builds :
        (builds[b].pc = "rejected"
            /\ builds[b].thrownInside.kind = "UnregisteredHandlerModule")
        => builds[b].error = builds[b].thrownInside

\* C22 witness: the factory was called and threw the bridge error, and the
\* build is rejected with the 'package is required' error.
C22_Witness ==
    /\ builds[1].pc = "rejected"
    /\ builds[1].factoryCalls = 1
    /\ builds[1].tail.validatorLoad = "ok"
    /\ builds[1].thrownInside.kind = "UnregisteredHandlerModule"
    /\ builds[1].error = ValidatorRequired

----------------------------------------------------------------------------
(* Properties of the importer's path resolution.                           *)

\* The candidates of a path that exist, by their place in the fixed order.
ExistingCandidates(path) ==
    {i \in 1..Len(moduleExtensions) : (path \o moduleExtensions[i]) \in ExistingFiles}

FirstCandidate(path) ==
    path \o moduleExtensions[CHOOSE i \in ExistingCandidates(path) :
                                 \A j \in ExistingCandidates(path) : i <= j]

\* The file the claim has the importer import for a path: the literal path
\* when it exists, else the first existing candidate, else the literal path.
FileByClaim(path) ==
    IF path \in ExistingFiles THEN path
    ELSE IF ExistingCandidates(path) # {} THEN FirstCandidate(path)
    ELSE path

\* The same, the candidates being tried only for a path without extension.
FileByExtensionRule(path) ==
    IF path \in ExistingFiles THEN path
    ELSE IF PathExtname(path) = <<>> /\ ExistingCandidates(path) # {}
        THEN FirstCandidate(path)
    ELSE path

\* A loop turn for module m imports the file f: the module object of f is
\* stored under the module's name, or the turn fails as the import of f does.
TurnImports(pre, post, f) ==
    LET m == pre.modules[pre.idx]
    IN  IF f \in ExistingFiles \ ThrowingFiles
            THEN /\ post.pc = "importing"
                 /\ post.importedHandlers[m.moduleName] = ModuleObject("esm", FileScheme \o f)
        ELSE /\ post.pc = "rejected"
             /\ post.error.kind = "HandlerImportFailure"
             /\ post.error.module = m.moduleName
             /\ post.error.cause = (IF f \in ExistingFiles THEN "boom" ELSE "Cannot find module")

\* C23 as stated: every loop turn imports the literal path when it exists,
\* else the first existing candidate, else attempts the literal path.
C23_ImportsLiteralThenCandidates ==
    [][\A b \in Builds :
           (/\ builds[b].pc = "importing"
            /\ builds[b].idx <= Len(builds[b].modules)
            /\ builds'[b] # builds[b])
           => TurnImports(builds[b], builds'[b],
                          FileByClaim(builds[b].modules[builds[b].idx].absolutePath))]_vars

\* C23 amended: the candidates are tried only when the literal path does
\* not exist and has no extension; a missing path with an extension is
\* attempted as it is, and that import failure aborts the call.
C23_ImportsLiteralThenCandidates_Amended ==
    [][\A b \in Builds :
           (/\ builds[b].pc = "importing"
            /\ builds[b].idx <= Len(builds[b].modules)
            /\ builds'[b] # builds[b])
           => TurnImports(builds[b], builds'[b],
                          FileByExtensionRule(builds[b].modules[builds[b].idx].absolutePath))]_vars

\* C23 witness: 'b' was imported from b.mjs (b.ts exists as well), and the
\* turn for 'd.v1' failed on the literal path although d.v1.js exists.
C23_Witness ==
    /\ builds[1].pc = "rejected"
    /\ builds[1].idx = 2
    /\ builds[1].modules[1].moduleName = RefB
    /\ builds[1].importedHandlers[RefB] = ModuleObject("esm", PathToFileURL(FileBMjs))
    /\ builds[1].modules[2].moduleName = RefVersioned
    /\ (builds[1].modules[2].absolutePath \o <<".", "j", "s">>) = FileDV1Js
    /\ FileDV1Js \in ExistingFiles
    /\ builds[1].error.kind = "HandlerImportFailure"
    /\ builds[1].error.cause = "Cannot find module"

----------------------------------------------------------------------------
(* Properties of the operation ids discovery records.                      *)

\* The entries that reference a handler and carry an id of either kind.
IdEntriesOf(doc, handlerName) ==
    LET Mine(e) == /\ ReferencesHandler(e)
                   /\ e.operation.handler.v = handlerName
                   /\ (e.operation.operationId # <<>> \/ e.operation.xEovOperationId # <<>>)
    IN  SelectSeq(doc.entries, Mine)

\* C24 as stated: the id recorded for an operation is its operationId when
\* it has one, and its x-eov-operation-id only when operationId is absent.
C24_OperationIdPreferred ==
    (probe.called /\ ~probe.apiSpec.isPath /\ probe.result.ok)
    => \A i \in 1..Len(probe.result.value) :
           LET mine == IdEntriesOf(probe.apiSpec.doc, probe.result.value[i].moduleName)
               ids  == probe.result.value[i].operationIds
           IN  /\ Len(ids) = Len(mine)
               /\ \A k \in 1..Len(ids) :
                      ids[k] = IF mine[k].operation.operationId # <<>>
                                   THEN mine[k].operation.operationId
                               ELSE mine[k].operation.xEovOperationId

\* C24 amended: the id recorded for an operation is its x-eov-operation-id
\* when it has one, and its operationId only when x-eov-operation-id is
\* absent.
C24_AlternateIdPreferred ==
    (probe.called /\ ~probe.apiSpec.isPath /\ probe.result.ok)
    => \A i \in 1..Len(probe.result.value) :
           LET mine == IdEntriesOf(probe.apiSpec.doc, probe.result.value[i].moduleName)
               ids  == probe.result.value[i].operationIds
           IN  /\ Len(ids) = Len(mine)
               /\ \A k \in 1..Len(ids) :
                      ids[k] = IF mine[k].operation.xEovOperationId # <<>>
                                   THEN mine[k].operation.xEovOperationId
                               ELSE mine[k].operation.operationId

\* C24 witness: three operations of one handler, with operationId only,
\* with both keys, and with x-eov-operation-id only; the ids recorded are
\* o1, x2 and x3.
C24_Witness ==
    /\ probe.called
    /\ probe.result.ok
    /\ probe.apiSpec = SpecObject(Document(
           <<Entry("get", OpA1), Entry("get", OpA2), Entry("get", OpA3)>>))
    /\ OpA2.operationId = <<"o", "2">>
    /\ Len(probe.result.value) = 1
    /\ probe.result.value[1].operationIds = <<<<"o", "1">>, <<"x", "2">>, <<"x", "3">>>>

----------------------------------------------------------------------------
(* Properties of the layers of a built application.                        *)

\* The places of a layer in the order of registration.
PlacesOf(layers, layer) == {i \in 1..Len(layers) : layers[i] = layer}

\* C25: in every resolved build whose problem-details middleware is not
\* disabled, that middleware is registered exactly once and after every
\* other layer; a build that disables it registers none.
C25_ProblemDetailsLast ==
    \A b \in Builds :
        builds[b].pc = "resolved"
        => IF builds[b].tail.disableProblemDetailsMiddleware
               THEN PlacesOf(builds[b].layers, "problemDetails") = {}
           ELSE PlacesOf(builds[b].layers, "problemDetails") = {Len(builds[b].layers)}

\* C25 witness: a resolved build with both body parsers, the spec-serving
\* route, the validator, the router and, last, the problem-details
\* middleware.
C25_Witness ==
    /\ builds[1].pc = "resolved"
    /\ ~builds[1].tail.disableProblemDetailsMiddleware
    /\ builds[1].layers = <<"json", "urlencoded", "serveSpecJson", "validator", "router", "problemDetails">>

\* The places of the spec-serving route, of either kind.
ServeSpecPlaces(layers) == PlacesOf(layers, "serveSpecStatic") \cup PlacesOf(layers, "serveSpecJson")

\* The kind of spec-serving route that fits the configured apiSpec.
ServeSpecKind(options) == IF options.apiSpec.isPath THEN "serveSpecStatic" ELSE "serveSpecJson"

\* C26 as stated: with serveSpec configured, the spec-serving route is
\* mounted after the validator middleware, static for a path and JSON for
\* an in-memory object.
C26_ServeSpecAfterValidator ==
    \A b \in Builds :
        (builds[b].pc = "resolved" /\ builds[b].tail.serveSpec)
        => /\ ServeSpecPlaces(builds[b].layers) = PlacesOf(builds[b].layers, ServeSpecKind(builds[b].options))
           /\ \E i \in ServeSpecPlaces(builds[b].layers) :
                  \A v \in PlacesOf(builds[b].layers, "validator") : v < i

\* C26 amended: with serveSpec configured, one spec-serving route is mounted,
\* before the validator middleware, static for a path and JSON for an
\* in-memory object; without serveSpec no such route is mounted.
C26_ServeSpecBeforeValidator ==
    \A b \in Builds :
        builds[b].pc = "resolved"
        => IF builds[b].tail.serveSpec
               THEN /\ Cardinality(ServeSpecPlaces(builds[b].layers)) = 1
                    /\ ServeSpecPlaces(builds[b].layers) = PlacesOf(builds[b].layers, ServeSpecKind(builds[b].options))
                    /\ Cardinality(PlacesOf(builds[b].layers, "validator")) = 1
                    /\ \A i \in ServeSpecPlaces(builds[b].layers) :
                           \A v \in PlacesOf(builds[b].layers, "validator") : i < v
           ELSE ServeSpecPlaces(builds[b].layers) = {}

\* C26 witness: two resolved builds serving the spec, one from a path and
\* one from an in-memory object, each with the route ahead of the validator.
C26_Witness ==
    \E b, c \in Builds :
        /\ builds[b].pc = "resolved" /\ builds[b].tail.serveSpec
        /\ builds[c].pc = "resolved" /\ builds[c].tail.serveSpec
        /\ builds[b].options.apiSpec.isPath
        /\ ~builds[c].options.apiSpec.isPath
        /\ PlacesOf(builds[b].layers, "serveSpecStatic") # {}
        /\ PlacesOf(builds[c].layers, "serveSpecJson") # {}

----------------------------------------------------------------------------
(* The context safeLog forwards.                                           *)

\* The context the logger received in the recorded call.
ForwardedContext == logCall.calls[1].args[1]

\* C27 as stated: the forwarded context is empty for undefined or null, a
\* copy of the own keys for a non-array object, { err } for an Error passed
\* to warn or error, and { data } for anything else in all four methods.
C27_ContextByKind ==
    (logCall.called /\ logCall.logger = "present")
    => ForwardedContext =
           IF logCall.data.t \in {"undefined", "null"} THEN LogContext("none", logCall.data.t)
           ELSE IF logCall.data.t = "error" /\ logCall.level \in {"warn", "error"}
               THEN LogContext("err", logCall.data.t)
           ELSE IF logCall.data.t \in {"object", "error"} THEN LogContext("own", logCall.data.t)
           ELSE LogContext("data", logCall.data.t)

\* C27 amended: as stated, except that safeLog.error wraps a primitive or an
\* array as { err } where debug, info and warn wrap it as { data }.
C27_ContextByKindAndLevel ==
    (logCall.called /\ logCall.logger = "present")
    => ForwardedContext =
           IF logCall.data.t \in {"undefined", "null"} THEN LogContext("none", logCall.data.t)
           ELSE IF logCall.data.t = "error" /\ logCall.level \in {"warn", "error"}
               THEN LogContext("err", logCall.data.t)
           ELSE IF logCall.data.t \in {"object", "error"} THEN LogContext("own", logCall.data.t)
           ELSE IF logCall.level = "error" THEN LogContext("err", logCall.data.t)
           ELSE LogContext("data", logCall.data.t)

\* C27 witness: safeLog.error with a logger and a string as data, forwarded
\* under the err key.
C27_Witness ==
    /\ logCall.called
    /\ logCall.level = "error"
    /\ logCall.logger = "present"
    /\ logCall.data = LogData("string")
    /\ ForwardedContext = LogContext("err", "string")

----------------------------------------------------------------------------
(* Traced request handler (handler.ts, tracedOn).                          *)

DefaultSpanName == <<"e", "m", "m", "e", "t", "t">>

CustomSpanName == <<"c", "u", "s", "t", "o", "m">>

\* options?.spanName ?? 'emmett.http.handle_request'
SpanNameOf(spanName) == IF spanName = <<>> THEN DefaultSpanName ELSE spanName

\* The errors a handler and a response function throw.
HandlerError == Err("HandlerFailed", <<>>, <<>>, "")

ResponseError == Err("ResponseFailed", <<>>, <<>>, "")

\* A span of the tracer: how often it was started and ended, the attributes
\* set on it, the statuses set on it in order, the exceptions recorded.
NoSpan == [name |-> <<>>, started |-> 0, ended |-> 0, attributes |-> {}, status |-> <<>>, exceptions |-> <<>>]

\* A translation that reports a response status of exactly 400 as OK.
SpanStatusOf_above(statusCode) == IF statusCode > 400 THEN "ERROR" ELSE "OK"

\* response.statusCode >= 400 ? SpanStatusCode.ERROR : SpanStatusCode.OK
SpanStatusOf(statusCode) == IF statusCode >= 400 THEN "ERROR" ELSE "OK"

\* catch (error) { recordException; setStatus(ERROR); throw error }
\* finally { span.end() }
CatchAndEnd(tc, error) ==
    [tc EXCEPT !.pc = "done",
               !.span.exceptions = Append(@, error),
               !.span.status = Append(@, "ERROR"),
               !.span.ended = @ + 1,
               !.outcome = "rejected",
               !.error = error]

\* Lines 72-83: the span is started, the request attributes are set and the
\* handler is called; a handler that throws synchronously is caught at
\* once, any other result is awaited.
TracedStart(tc) ==
    LET started == [tc EXCEPT !.called = TRUE,
                              !.span.name = SpanNameOf(tc.spanName),
                              !.span.started = @ + 1,
                              !.span.attributes = {"http.method", "http.route"},
                              !.handled = @ + 1]
    IN  IF tc.sync /\ tc.handlerThrows THEN CatchAndEnd(started, HandlerError)
        ELSE [started EXCEPT !.pc = "awaiting"]

\* Lines 83-97: the awaited result arrives; the response function is
\* applied, the status code and the span status are set, the span is ended.
TracedResume(tc) ==
    IF tc.handlerThrows THEN CatchAndEnd(tc, HandlerError)
    ELSE IF tc.responseThrows
        THEN CatchAndEnd([tc EXCEPT !.applied = @ + 1], ResponseError)
    ELSE [tc EXCEPT !.pc = "done",
                    !.applied = @ + 1,
                    !.statusCode = tc.sets,
                    !.span.attributes = @ \cup {"http.status_code"},
                    !.span.status = Append(@, SpanStatusOf(tc.sets)),
                    !.span.ended = @ + 1,
                    !.outcome = "resolved"]

\* The status codes response functions set.
StatusCodes == {200, 204, 399, 400, 404, 500}

SpanNames == {<<>>, CustomSpanName}

InitTrace ==
    /\ BuildIdle
    /\ RunIdle
    /\ lastRegister = NotCalled
    /\ middlewareRun = NotCalled
    /\ traceCall \in {[called |-> FALSE, pc |-> "idle", spanName |-> name,
                       sync |-> sync, handlerThrows |-> ht,
                       responseThrows |-> rt, sets |-> code,
                       statusCode |-> 200, handled |-> 0, applied |-> 0,
                       span |-> NoSpan, outcome |-> "pending",
                       error |-> NoError] :
                          name \in SpanNames, sync \in BOOLEAN,
                          ht \in BOOLEAN, rt \in BOOLEAN,
                          code \in StatusCodes}

\* The wrapped handler is called with a request.
tracedOn ==
    /\ traceCall.pc = "idle"
    /\ traceCall' = TracedStart(traceCall)
    /\ UNCHANGED <<buildVars, runVars, lastRegister, middlewareRun>>

\* The awaited handler result is delivered.
tracedOn_resume ==
    /\ traceCall.pc = "awaiting"
    /\ traceCall' = TracedResume(traceCall)
    /\ UNCHANGED <<buildVars, runVars, lastRegister, middlewareRun>>

NextTrace ==
    \/ tracedOn
    \/ tracedOn_resume

SpecTrace == InitTrace /\ [][NextTrace]_vars

\* The error the call's handler or response function throws, if any.
ThrownIn(tc) ==
    IF tc.handlerThrows THEN HandlerError
    ELSE IF tc.responseThrows THEN ResponseError
    ELSE NoError

\* C28: a call of a traced handler starts one span and ends it exactly once,
\* on every path. When the handler resolves and its response function
\* returns, that function was applied once and the span status is ERROR for
\* a response status of 400 or above and OK otherwise; when the handler or
\* the response function throws, the exception is recorded, the span status
\* is ERROR and the call rejects with that same error.
C28_SpanEndedOnce ==
    traceCall.called
    => /\ traceCall.span.started = 1
       /\ traceCall.handled = 1
       /\ traceCall.pc = "awaiting"
          => /\ traceCall.span.ended = 0
             /\ traceCall.outcome = "pending"
       /\ traceCall.pc = "done"
          => /\ traceCall.span.ended = 1
             /\ IF ThrownIn(traceCall) = NoError
                    THEN /\ traceCall.outcome = "resolved"
                         /\ traceCall.applied = 1
                         /\ traceCall.span.exceptions = <<>>
                         /\ traceCall.span.status =
                                <<IF traceCall.statusCode >= 400 THEN "ERROR" ELSE "OK">>
                ELSE /\ traceCall.outcome = "rejected"
                     /\ traceCall.error = ThrownIn(traceCall)
                     /\ traceCall.span.exceptions = <<ThrownIn(traceCall)>>
                     /\ traceCall.span.status = <<"ERROR">>
                     /\ traceCall.applied = (IF traceCall.handlerThrows THEN 0 ELSE 1)

\* C28 witness: an asynchronous handler resolved and its response function
\* threw; the span was ended once with status ERROR and the error rethrown.
C28_Witness ==
    /\ traceCall.called
    /\ traceCall.pc = "done"
    /\ ~traceCall.sync
    /\ ~traceCall.handlerThrows
    /\ traceCall.responseThrows
    /\ traceCall.applied = 1
    /\ traceCall.span.ended = 1
    /\ traceCall.span.status = <<"ERROR">>
    /\ traceCall.span.exceptions = <<ResponseError>>
    /\ traceCall.outcome = "rejected"
    /\ traceCall.error = ResponseError

----------------------------------------------------------------------------
(* The module cache after a failed import.                                 *)

\* The turns of its import loop a build has completed with a registration.
TurnsDone(bd) == {j \in 1..Len(bd.modules) : j < bd.idx}

\* The cache keys those turns wrote: each module's path as discovered and
\* the path of the file imported for it.
PathsRegisteredBy(bd) ==
    UNION {{bd.modules[j].absolutePath, resolveModulePath(bd.modules[j].absolutePath)} :
               j \in TurnsDone(bd)}

\* A build whose importAndRegisterHandlers call failed.
ImportRejected(bd) == bd.pc = "rejected" /\ bd.error.kind = "HandlerImportFailure"

\* C29: a failed importAndRegisterHandlers call is not rolled back. In every
\* state from the failure on, the cache holds, for each module the call
\* imported before the failing one, that module's object under its path and
\* under the path of the imported file; the failing module and those after
\* it have added nothing, so that the keys of the cache are exactly those
\* written by the completed turns of the calls made so far.
C29_FailedImportNotRolledBack ==
    /\ \A b \in Builds :
           ImportRejected(builds[b])
           => \A j \in TurnsDone(builds[b]) :
                  LET absolutePath == builds[b].modules[j].absolutePath
                      resolvedPath == resolveModulePath(absolutePath)
                  IN  /\ absolutePath \in DOMAIN moduleCache
                      /\ resolvedPath \in DOMAIN moduleCache
                      /\ moduleCache[absolutePath] =
                             builds[b].importedHandlers[builds[b].modules[j].moduleName]
                      /\ moduleCache[resolvedPath] = moduleCache[absolutePath]
    /\ DOMAIN moduleCache = UNION {PathsRegisteredBy(builds[b]) : b \in Builds}

\* C29 witness: a call that failed at its second module while the other
\* build has gone on to resolve; the first module's entries are in the cache.
C29_Witness ==
    \E b, c \in Builds :
        /\ ImportRejected(builds[b])
        /\ builds[b].idx = 2
        /\ builds[b].modules[1].absolutePath \in DOMAIN moduleCache
        /\ builds[c].pc = "resolved"

----------------------------------------------------------------------------
(* runMiddleware (openapi/firebase-auth), step by step: the middleware is  *)
(* called inside the executor of the promise runMiddleware returns; next,  *)
(* the settling of the middleware's promise and the callbacks attached to  *)
(* it happen in whatever order the middleware and the job queue produce.   *)

\* How often a middleware calls next at most.
MaxNextCalls == 3

\* resolve(value) of the promise runMiddleware returns: the first call
\* settles it, later calls have no effect.
ResolveWith_last(run, value) ==
    [run EXCEPT !.resolveCalls = Append(@, value),
                !.result = IF value THEN "true" ELSE "false"]

ResolveWith(run, value) ==
    [run EXCEPT !.resolveCalls = Append(@, value),
                !.result = IF @ = "pending"
                               THEN (IF value THEN "true" ELSE "false")
                           ELSE @]

\* const next = () => { nextCalled = true; resolve(true); }
NextCallback(run) ==
    ResolveWith([run EXCEPT !.nextCalled = TRUE,
                            !.nextCalls = @ + 1,
                            !.events = Append(@, "next")], TRUE)

\* .then(() => { if (!nextCalled) resolve(false); }) for a fulfilled
\* promise, .catch(() => resolve(false)) for a rejected one.
Reaction(run) ==
    LET ran == [run EXCEPT !.events = Append(@, "reaction")]
    IN  IF run.settled = "fulfilled"
            THEN (IF ~run.nextCalled THEN ResolveWith(ran, FALSE) ELSE ran)
        ELSE ResolveWith(ran, FALSE)

\* The jobs between the settling of the middleware's promise and the
\* callback that reacts to it: the then callback is one job away from a
\* fulfilment; a rejection first passes through the promise then returned
\* and reaches the catch callback a job later.
JobsUntilReaction(settled) == IF settled = "fulfilled" THEN 1 ELSE 2

\* The middleware's promise settles.
SettledAs(run, how) ==
    [run EXCEPT !.settled = how,
                !.jobs = JobsUntilReaction(how),
                !.events = Append(@, "settled")]

\* The executor: Promise.resolve(middleware(req, res, next)).then(..).catch(..)
\* The middleware may call next before it returns; it returns a value that
\* is no promise, or a promise, or throws. An exception of the executor
\* rejects the promise unless it has been resolved.
Executor(run, callsNext, returns) ==
    LET called  == [run EXCEPT !.called = TRUE, !.pc = "running", !.returns = returns]
        entered == IF callsNext THEN NextCallback(called) ELSE called
    IN  IF returns = "throws"
            THEN [entered EXCEPT !.events = Append(@, "threw"),
                                 !.result = IF @ = "pending" THEN "rejected" ELSE @]
        ELSE IF returns = "value" THEN SettledAs(entered, "fulfilled")
        ELSE entered

IdleRun ==
    [called |-> FALSE, pc |-> "idle", returns |-> "none", nextCalled |-> FALSE,
     nextCalls |-> 0, settled |-> "pending", jobs |-> 0, result |-> "pending",
     resolveCalls |-> <<>>, events |-> <<>>]

InitRace ==
    /\ BuildIdle
    /\ RunIdle
    /\ lastRegister = NotCalled
    /\ traceCall = NotCalled
    /\ middlewareRun = IdleRun

\* runMiddleware(middleware, req)
runMiddleware_call(callsNext, returns) ==
    /\ middlewareRun.pc = "idle"
    /\ middlewareRun' = Executor(middlewareRun, callsNext, returns)
    /\ UNCHANGED <<buildVars, runVars, lastRegister, traceCall>>

\* The middleware, or something it started, calls next.
runMiddleware_next ==
    /\ middlewareRun.pc = "running"
    /\ middlewareRun.nextCalls < MaxNextCalls
    /\ middlewareRun' = NextCallback(middlewareRun)
    /\ UNCHANGED <<buildVars, runVars, lastRegister, traceCall>>

\* The promise the middleware returned is fulfilled or rejected.
runMiddleware_settled(how) ==
    /\ middlewareRun.pc = "running"
    /\ middlewareRun.returns = "promise"
    /\ middlewareRun.settled = "pending"
    /\ middlewareRun' = SettledAs(middlewareRun, how)
    /\ UNCHANGED <<buildVars, runVars, lastRegister, traceCall>>

\* The job queue runs the next job of the chain attached to that promise.
runMiddleware_job ==
    /\ middlewareRun.pc = "running"
    /\ middlewareRun.jobs > 0
    /\ middlewareRun' =
           IF middlewareRun.jobs = 1
               THEN Reaction([middlewareRun EXCEPT !.jobs = 0])
           ELSE [middlewareRun EXCEPT !.jobs = @ - 1]
    /\ UNCHANGED <<buildVars, runVars, lastRegister, traceCall>>

NextRace ==
    \/ \E callsNext \in BOOLEAN, returns \in {"value", "promise", "throws"} :
           runMiddleware_call(callsNext, returns)
    \/ runMiddleware_next
    \/ \E how \in {"fulfilled", "rejected"} : runMiddleware_settled(how)
    \/ runMiddleware_job

SpecRace == InitRace /\ [][NextRace]_vars

\* The first of the events of a run that is one of the given kinds, or
\* "none".
FirstEvent(events, kinds) ==
    LET at == {i \in 1..Len(events) : events[i] \in kinds}
    IN  IF at = {} THEN "none"
        ELSE events[CHOOSE i \in at : \A j \in at : i <= j]

\* C30 as stated: the result is that of the first of two events, true when
\* next is called before the middleware's promise settles, false when the
\* promise settles before next has been called.
C30_FirstOfNextAndSettled ==
    (middlewareRun.called /\ middlewareRun.returns # "throws")
    => /\ FirstEvent(middlewareRun.events, {"next", "settled"}) = "next"
          => middlewareRun.result = "true"
       /\ FirstEvent(middlewareRun.events, {"next", "settled"}) = "settled"
          => middlewareRun.result \in {"pending", "false"}

\* C30 amended: runMiddleware settles once, with the first call of resolve:
\* true when next is called before the callback attached to the middleware's
\* promise has run, false when that callback runs (after a fulfilment or a
\* rejection) before next has been called; the result is pending until one
\* of the two happens, and a later next or callback does not change it. A
\* middleware that throws before it returns rejects the call unless it had
\* called next.
C30_FirstResolveWins ==
    middlewareRun.called
    => /\ middlewareRun.result =
              (LET first == FirstEvent(middlewareRun.events, {"next", "reaction", "threw"})
               IN  IF first = "next" THEN "true"
                   ELSE IF first = "reaction" THEN "false"
                   ELSE IF first = "threw" THEN "rejected"
                   ELSE "pending")
       /\ middlewareRun.resolveCalls # <<>>
          => middlewareRun.result # "pending"

\* C30 witness: the middleware's promise settled, its callback resolved the
\* call with false, and next was called afterwards: the result is false.
C30_Witness ==
    /\ middlewareRun.called
    /\ middlewareRun.events = <<"settled", "reaction", "next">>
    /\ middlewareRun.resolveCalls = <<FALSE, TRUE>>
    /\ middlewareRun.result = "false"

=============================================================================
